---- MODULE Spec2Model ----
(***************************************************************************)
(* Model of the DeployBackup synchronisation engine: the State Store       *)
(* (modules/state_manager.py), the Remote Scanner                          *)
(* (modules/incremental_scanner.py, SynergyCore.get_remote_files), the     *)
(* Transfer Pool (modules/parallel_downloader.py), the Tar Streamer        *)
(* (modules/tar_downloader.py) and the orchestrator                        *)
(* BackupOptimizedMixin.backup_optimized (modules/backup_optimized.py).    *)
(*                                                                         *)
(* Paths are sequences of one-character strings, so that the string        *)
(* operations of the code (split, endswith, substring, join, dirname) are  *)
(* computed rather than tabulated.  An Index (a Python dict                *)
(* rel_path -> {size, modify}) is a function whose domain is a finite set  *)
(* of paths.                                                               *)
(***************************************************************************)
EXTENDS Integers, Sequences, FiniteSets, TLC

\* ------------------------------------------------------------------------
\* Strings
\* ------------------------------------------------------------------------

\* s.endswith(suf)
EndsWith(s, suf) ==
    /\ Len(suf) <= Len(s)
    /\ SubSeq(s, Len(s) - Len(suf) + 1, Len(s)) = suf

\* s.startswith(pre)
StartsWith(s, pre) ==
    /\ Len(pre) <= Len(s)
    /\ SubSeq(s, 1, Len(pre)) = pre

\* sub in s   (substring test)
Contains(s, sub) ==
    \E i \in 1..(Len(s) - Len(sub) + 1) : SubSeq(s, i, i + Len(sub) - 1) = sub

\* s.split('/') : the list of components of a path
RECURSIVE SplitSlash(_)
SplitSlash(s) ==
    IF \A i \in 1..Len(s) : s[i] # "/"
    THEN <<s>>
    ELSE LET i == CHOOSE k \in 1..Len(s) :
                     s[k] = "/" /\ \A j \in 1..(k - 1) : s[j] # "/"
         IN  <<SubSeq(s, 1, i - 1)>> \o SplitSlash(SubSeq(s, i + 1, Len(s)))

\* os.path.dirname(p) : what precedes the last '/', '' when there is none
Dirname(p) ==
    IF \A i \in 1..Len(p) : p[i] # "/"
    THEN <<>>
    ELSE LET i == CHOOSE k \in 1..Len(p) :
                     p[k] = "/" /\ \A j \in (k + 1)..Len(p) : p[j] # "/"
         IN  SubSeq(p, 1, i - 1)

\* os.path.join(base, name).replace('\\', '/') for a relative name
JoinPath(base, name) ==
    IF base = <<>> THEN name ELSE base \o <<"/">> \o name

\* ------------------------------------------------------------------------
\* The remote tree and the local tree
\* ------------------------------------------------------------------------

FileA   == <<"a">>                               \* a.txt of the scenarios
FileLog == <<"d", "/", "x", ".", "l", "o", "g">>  \* d/x.log, matches '*.log'
LinkL   == <<"l">>                               \* a symbolic link to a file

RemotePaths == {FileA, FileLog, LinkL}

\* The name a LIST line shows for a link: "l -> target"
ArrowName(name) == name \o <<" ", "-", ">", " ", "t">>

\* The versions of a file: the change-in-flight scenario has x grow from
\* 1000 to 1200 bytes
Versions == {<<1000, "t1">>, <<1200, "t2">>}

NoFile == [kind |-> "none"]

RemoteEntry(p) ==
    IF p = LinkL
    THEN [kind : {"lnk"}, size : {1000}, modify : {"t1"}]
    ELSE {[kind |-> "file", size |-> v[1], modify |-> v[2]] : v \in Versions}

\* an empty Index
EmptyIndex == [p \in {} |-> NoFile]

Restrict(f, S) == [p \in (DOMAIN f) \cap S |-> f[p]]

\* a clear-then-insert: only the entries of g are left
Update_M(f, g) == g

\* dict.update : the entries of g replace and extend those of f
Update(f, g) ==
    [p \in (DOMAIN f) \cup (DOMAIN g) |-> IF p \in DOMAIN g THEN g[p] ELSE f[p]]

\* ------------------------------------------------------------------------
\* Exclusion patterns (SynergyCore)
\* ------------------------------------------------------------------------

\* '*.log', '*.tmp', '.git/', '.svn/', 'node_modules/', '__pycache__/',
\* '*.pyc', 'cache/', 'tmp/', 'temp/', '.DS_Store', 'Thumbs.db', '.idea/',
\* '.vscode/', '.sessions/', 'sessions/', 'sess_'
EXCLUDE_PATTERNS ==
    << <<"*", ".", "l", "o", "g">>,
       <<"*", ".", "t", "m", "p">>,
       <<".", "g", "i", "t", "/">>,
       <<".", "s", "v", "n", "/">>,
       <<"n", "o", "d", "e", "_", "m", "o", "d", "u", "l", "e", "s", "/">>,
       <<"_", "_", "p", "y", "c", "a", "c", "h", "e", "_", "_", "/">>,
       <<"*", ".", "p", "y", "c">>,
       <<"c", "a", "c", "h", "e", "/">>,
       <<"t", "m", "p", "/">>,
       <<"t", "e", "m", "p", "/">>,
       <<".", "D", "S", "_", "S", "t", "o", "r", "e">>,
       <<"T", "h", "u", "m", "b", "s", ".", "d", "b">>,
       <<".", "i", "d", "e", "a", "/">>,
       <<".", "v", "s", "c", "o", "d", "e", "/">>,
       <<".", "s", "e", "s", "s", "i", "o", "n", "s", "/">>,
       <<"s", "e", "s", "s", "i", "o", "n", "s", "/">>,
       <<"s", "e", "s", "s", "_">> >>

PatternMatches(pattern, file_path) ==
    IF EndsWith(pattern, <<"/">>)
    THEN \* a directory: pattern.rstrip('/') in file_path.split('/')
         LET comps == SplitSlash(file_path)
         IN  \E i \in 1..Len(comps) : comps[i] = SubSeq(pattern, 1, Len(pattern) - 1)
    ELSE IF StartsWith(pattern, <<"*", ".">>)
    THEN \* an extension: file_path.endswith(pattern[1:])
         EndsWith(file_path, SubSeq(pattern, 2, Len(pattern)))
    ELSE \* pattern in file_path
         Contains(file_path, pattern)

should_exclude(file_path) ==
    \E i \in 1..Len(EXCLUDE_PATTERNS) : PatternMatches(EXCLUDE_PATTERNS[i], file_path)

\* remote_files = {k: v for k, v in remote_files.items() if not should_exclude(k)}
ApplyExclusions(remote_files, exclude_patterns) ==
    IF exclude_patterns
    THEN Restrict(remote_files, {p \in DOMAIN remote_files : ~should_exclude(p)})
    ELSE remote_files

\* ------------------------------------------------------------------------
\* What the server answers to a listing
\* ------------------------------------------------------------------------

\* tree : [RemotePaths -> entry or NoFile];  dir : a relative path, <<>> the root
Present(tree) == {p \in DOMAIN tree : tree[p].kind # "none"}

Under(dir, p) == dir = <<>> \/ StartsWith(p, dir \o <<"/">>)

RelTo(dir, p) == IF dir = <<>> THEN p ELSE SubSeq(p, Len(dir) + 2, Len(p))

\* the entries of directory dir: files, links and sub-directories
DirEntries(tree, dir) ==
    { LET comps == SplitSlash(RelTo(dir, p))
      IN  IF Len(comps) = 1
          THEN [name |-> comps[1], kind |-> tree[p].kind,
                size |-> tree[p].size, modify |-> tree[p].modify]
          ELSE [name |-> comps[1], kind |-> "dir", size |-> 0, modify |-> "t0"]
      : p \in {q \in Present(tree) : Under(dir, q)} }

\* The lines of an MLSD answer.  Over SFTP they are made by
\* SFTPAdapter.retrlines, which skips symbolic links; an FTP server tags a
\* link with its own type fact (srv.link_type) and may send a unique fact.
MlsdLines(srv, tree, dir) ==
    IF srv.sftp
    THEN { [name |-> e.name, type |-> IF e.kind = "dir" THEN "dir" ELSE "file",
            size |-> e.size, modify |-> e.modify, unique |-> FALSE]
           : e \in {x \in DirEntries(tree, dir) : x.kind # "lnk"} }
    ELSE { [name |-> e.name,
            type |-> IF e.kind = "lnk" THEN srv.link_type ELSE e.kind,
            size |-> e.size, modify |-> e.modify, unique |-> srv.unique]
           : e \in DirEntries(tree, dir) }

\* The lines of a LIST answer: permissions, size, name ("l -> t" for a link)
ListLines(srv, tree, dir) ==
    IF srv.sftp
    THEN { [perm |-> IF e.kind = "dir" THEN "d" ELSE "-", size |-> e.size,
            name |-> e.name]
           : e \in {x \in DirEntries(tree, dir) : x.kind # "lnk"} }
    ELSE { [perm |-> IF e.kind = "dir" THEN "d" ELSE IF e.kind = "lnk" THEN "l" ELSE "-",
            size |-> e.size,
            name |-> IF e.kind = "lnk" THEN ArrowName(e.name) ELSE e.name]
           : e \in DirEntries(tree, dir) }

\* ------------------------------------------------------------------------
\* IncrementalScanner
\* ------------------------------------------------------------------------

\* the union of dicts with disjoint keys
MergeAll(F) ==
    [p \in UNION {DOMAIN f : f \in F} |-> (CHOOSE f \in F : p \in DOMAIN f)[p]]

\* parsed_items of _scan_directory_mlsd: (name, props)
scan_directory_mlsd(srv, tree, dir) ==
    { [name |-> l.name, type |-> l.type, size |-> l.size, modify |-> l.modify]
      : l \in { x \in MlsdLines(srv, tree, dir) :
                  /\ x.type # "lnk"
                  /\ ~(x.unique /\ x.type # "dir" /\ x.type # "file") } }

\* parsed_items of _scan_directory_list
scan_directory_list(srv, tree, dir) ==
    { [name |-> l.name, type |-> IF l.perm = "d" THEN "dir" ELSE "file",
       size |-> l.size, modify |-> ""]
      : l \in { x \in ListLines(srv, tree, dir) : x.perm # "l" } }

\* _scan_directory: MLSD when the server answers it, else LIST
scan_directory(srv, tree, dir) ==
    IF srv.mlsd
    THEN scan_directory_mlsd(srv, tree, dir)
    ELSE scan_directory_list(srv, tree, dir)

\* the files[rel_path] = {...} assignments of one directory's items
ItemFiles(rel, items) ==
    LET fs == {it \in items : it.type # "dir"}
    IN  [p \in {JoinPath(rel, it.name) : it \in fs} |->
            LET it == CHOOSE x \in fs : JoinPath(rel, x.name) = p
            IN  [size |-> it.size, modify |-> it.modify]]

\* _scan_recursive; lost: the directories whose listing gives no item (the
\* MLSD and the LIST command both fail, and _scan_directory_with_reconnect
\* gets nothing better)
RECURSIVE scan_recursive(_, _, _, _)
scan_recursive(srv, tree, rel, lost) ==
    LET items == IF rel \in lost THEN {} ELSE scan_directory(srv, tree, rel)
    IN  MergeAll({ItemFiles(rel, items)} \cup
                 { scan_recursive(srv, tree, JoinPath(rel, it.name), lost)
                   : it \in {x \in items : x.type = "dir"} })

\* files of scan_full
scan_full(srv, tree, lost) == scan_recursive(srv, tree, <<>>, lost)

\* the sub-directory of the model's trees
DirD == <<"d">>

\* the full scan walks into DirD
ReachesDirD(srv, tree) ==
    \E it \in scan_directory(srv, tree, <<>>) : it.type = "dir" /\ it.name = DirD

\* A listing fault of the full scan at DirD: "dead" (the connection is lost
\* and _reconnect fails: scan_stats['scan_errors'] += 1) or "denied" (the
\* server refuses the listing, the connection stays alive)
ScanFaults == {"none", "dead", "denied"}

LostDirs(fault) == IF fault = "none" THEN {} ELSE {DirD}

\* scan_stats['scan_errors'] of a full scan
scan_errors(srv, tree, fault) ==
    IF fault = "dead" /\ ReachesDirD(srv, tree) THEN 1 ELSE 0

\* scan_incremental that starts from an empty dict, not from the cache
scan_incremental_M(srv, tree, cache_files) ==
    IF DOMAIN cache_files = {}
    THEN scan_full(srv, tree, {})
    ELSE LET root_items   == scan_directory(srv, tree, <<>>)
             current_dirs == {it.name : it \in {x \in root_items : x.type = "dir"}}
             cached_dirs  == {Dirname(f) : f \in {g \in DOMAIN cache_files :
                                                     Contains(g, <<"/">>)}}
             new_dirs     == current_dirs \ cached_dirs
             rescanned    == MergeAll({ scan_recursive(srv, tree, d, {}) : d \in new_dirs })
         IN  Update(rescanned, ItemFiles(<<>>, root_items))

\* scan_incremental without a listing fault: the files of the cache, those
\* of the directories of the root that are the parent of no cached path, and
\* the files listed at the root
scan_incremental(srv, tree, cache_files) ==
    IF DOMAIN cache_files = {}
    THEN scan_full(srv, tree, {})
    ELSE LET root_items   == scan_directory(srv, tree, <<>>)
             current_dirs == {it.name : it \in {x \in root_items : x.type = "dir"}}
             cached_dirs  == {Dirname(f) : f \in {g \in DOMAIN cache_files :
                                                     Contains(g, <<"/">>)}}
             new_dirs     == current_dirs \ cached_dirs
             rescanned    == MergeAll({ scan_recursive(srv, tree, d, {}) : d \in new_dirs })
         IN  Update(Update(cache_files, rescanned), ItemFiles(<<>>, root_items))

\* find -L ROOT -type f -printf "%P\t%s\t%T@\n": regular files, and the
\* symbolic links whose target is a regular file, under the link's own path
scan_ssh_find(tree) ==
    [p \in Present(tree) |-> [size |-> tree[p].size, modify |-> tree[p].modify]]

\* ------------------------------------------------------------------------
\* SynergyCore.get_remote_files
\* ------------------------------------------------------------------------

\* props = {p.split('=')[0]: p.split('=')[1] ...}: what follows a second '='
\* of a fact is dropped
CoreType(type) == IF type = "OS.unix=symlink" THEN "OS.unix" ELSE type

RECURSIVE get_remote_files(_, _, _)
get_remote_files(srv, tree, base_path) ==
    IF srv.mlsd
    THEN LET items == MlsdLines(srv, tree, base_path)
             fs    == {x \in items : CoreType(x.type) = "file"}
         IN  MergeAll(
               { [p \in {JoinPath(base_path, it.name) : it \in fs} |->
                    LET it == CHOOSE x \in fs : JoinPath(base_path, x.name) = p
                    IN  [size |-> it.size, modify |-> it.modify]] } \cup
               { get_remote_files(srv, tree, JoinPath(base_path, it.name))
                 : it \in {x \in items : CoreType(x.type) = "dir"} })
    ELSE LET items == ListLines(srv, tree, base_path)
             fs    == {x \in items : x.perm # "d"}
         IN  MergeAll(
               { [p \in {JoinPath(base_path, it.name) : it \in fs} |->
                    LET it == CHOOSE x \in fs : JoinPath(base_path, x.name) = p
                    IN  [size |-> it.size, modify |-> ""]] } \cup
               { get_remote_files(srv, tree, JoinPath(base_path, it.name))
                 : it \in {x \in items : x.perm = "d"} })

\* ------------------------------------------------------------------------
\* The diff
\* ------------------------------------------------------------------------

RECURSIVE SetToSeq(_)
SetToSeq(S) ==
    IF S = {} THEN <<>>
    ELSE LET x == CHOOSE y \in S : TRUE IN <<x>> \o SetToSeq(S \ {x})

Range(q) == {q[i] : i \in 1..Len(q)}

RECURSIVE SumSizes(_, _)
SumSizes(files, S) ==
    IF S = {} THEN 0
    ELSE LET x == CHOOSE y \in S : TRUE IN files[x].size + SumSizes(files, S \ {x})

\* needs_download with the comparison of the modification stamps left out
ClassicNeedsDownload_M(current_state, rel_path, info) ==
    \/ rel_path \notin DOMAIN current_state
    \/ current_state[rel_path].size # info.size

\* needs_download of BackupMixin.backup
ClassicNeedsDownload(current_state, rel_path, info) ==
    \/ rel_path \notin DOMAIN current_state
    \/ current_state[rel_path].size # info.size
    \/ current_state[rel_path].modify # info.modify

\* The loop "for rel_path, info in remote_files.items()" of BackupMixin.backup,
\* run over the items in list order; acc = [files_to_download, total_bytes]
RECURSIVE ClassicLoop(_, _, _, _)
ClassicLoop(items, remote_files, current_state, acc) ==
    IF items = <<>> THEN acc
    ELSE LET rel_path == Head(items)
             info     == remote_files[rel_path]
         IN  ClassicLoop(Tail(items), remote_files, current_state,
                 IF ClassicNeedsDownload(current_state, rel_path, info)
                 THEN [files_to_download |->
                           Append(acc.files_to_download, <<rel_path, info.size>>),
                       total_bytes |-> acc.total_bytes + info.size]
                 ELSE acc)

\* files_to_download, total_bytes and deleted_files of BackupMixin.backup;
\* deleted_files is computed under options['handle_deletions'] only
ClassicDiff(remote_files, current_state, handle_deletions) ==
    LET r == ClassicLoop(SetToSeq(DOMAIN remote_files), remote_files, current_state,
                         [files_to_download |-> <<>>, total_bytes |-> 0])
    IN  [files_to_download |-> r.files_to_download,
         total_bytes       |-> r.total_bytes,
         deleted_files     |-> IF handle_deletions
                               THEN (DOMAIN current_state) \ (DOMAIN remote_files)
                               ELSE {}]

\* StateManager.find_files_to_download(remote_files): the streaming diff
\* against the store.  files_to_download is kept as the dict path -> size
\* that the orchestrator makes of the list.
find_files_to_download(store, remote_files) ==
    LET need == { p \in DOMAIN remote_files :
                    \/ p \notin DOMAIN store
                    \/ store[p].size # remote_files[p].size
                    \/ store[p].modify # remote_files[p].modify }
    IN  [files_to_download |-> [p \in need |-> remote_files[p].size],
         total_bytes       |-> SumSizes(remote_files, need),
         deleted_files     |-> (DOMAIN store) \ (DOMAIN remote_files)]

\* ------------------------------------------------------------------------
\* StateManager
\* ------------------------------------------------------------------------

\* file_list = list(files.items())
FileList(files) == SetToSeq(DOMAIN files)

\* total_batches = (len(file_list) + batch_size - 1) // batch_size
TotalBatches(files, batch_size) ==
    (Cardinality(DOMAIN files) + batch_size - 1) \div batch_size

\* the batch with end_idx one short: the last row of each batch is left out
BatchPaths_M(files, batch_size, batch_num) ==
    LET file_list == FileList(files)
        start_idx == batch_num * batch_size
        end_idx   == IF start_idx + batch_size < Len(file_list)
                     THEN start_idx + batch_size ELSE Len(file_list)
    IN  Range(SubSeq(file_list, start_idx + 1, end_idx - 1))

\* batch = file_list[start_idx:end_idx]
BatchPaths(files, batch_size, batch_num) ==
    LET file_list == FileList(files)
        start_idx == batch_num * batch_size
        end_idx   == IF start_idx + batch_size < Len(file_list)
                     THEN start_idx + batch_size ELSE Len(file_list)
    IN  Range(SubSeq(file_list, start_idx + 1, end_idx))

\* one transaction of update_file_batch: INSERT ... ON CONFLICT DO UPDATE
UpsertBatch(store, files, batch) ==
    Update(store, [p \in batch |-> [size |-> files[p].size, modify |-> files[p].modify]])

\* delete_files that leaves the rows of the batch in the table
DeleteBatch_M(store, batch) == store

\* delete_files: DELETE FROM file_state WHERE rel_path IN (...)
DeleteBatch(store, batch) == Restrict(store, (DOMAIN store) \ batch)

\* ------------------------------------------------------------------------
\* State
\* ------------------------------------------------------------------------

MaxRuns    == 2      \* runs of backup_optimized in one behaviour
MaxEvents  == 1      \* faults of a transfer and changes of the remote tree
MaxCrashes == 1      \* runs that are killed
NumWorkers == 2      \* options['num_workers']
CheckpointInterval == 2   \* options['checkpoint_interval']

\* TAR_STREAM_THRESHOLD of backup_optimized (500 files), scaled to the
\* number of paths of the model
TAR_STREAM_THRESHOLD == 2

MaxRetries      == 3      \* max_retries=3 of the ParallelDownloader
RetryWorkers    == 3      \* num_workers=min(3, ...) of the retry pool
CommitBatchSize == 5000   \* update_file_batch(remote_files, batch_size=5000)
DeleteBatchSize == 1000   \* delete_files(rel_paths, batch_size=1000)

VARIABLES
    remote,        \* the remote tree: [RemotePaths -> entry or NoFile]
    server,        \* what the server supports
    options,       \* the options dict of backup_optimized
    localfs,       \* the local tree: path -> size of the local file
    file_state,    \* table file_state of the State Store: path -> [size, modify]
    checkpoints,   \* the rows of table sync_checkpoints with the sync_id of
                   \* the current run, in insertion order
    sync_errors,   \* the rows of table sync_errors with that sync_id
    cache,         \* the ScanCache file: [files, fresh]; fresh: last_full_scan
                   \* was set by a scan without errors
    orch,          \* the locals of backup_optimized and its position
    task_queue,    \* ParallelDownloader.task_queue
    result_queue,  \* ParallelDownloader.result_queue
    stats,         \* ParallelDownloader.stats
    stop_flag,     \* ParallelDownloader.stop_flag
    workers,       \* the worker threads
    hist,          \* history: the run count, the snapshot at startup, budgets
    diff_io,       \* inputs and outputs of the diff taken alone
    batch_io,      \* a call of update_file_batch taken alone
    tar_io,        \* a call of TarStreamDownloader.download_files taken alone
    fn_io          \* a function taken alone: its arguments and its result

vars == << remote, server, options, localfs, file_state, checkpoints, sync_errors,
           cache, orch, task_queue, result_queue, stats, stop_flag, workers, hist,
           diff_io, batch_io, tar_io, fn_io >>

envVars   == << remote, server, options >>
diskVars  == << localfs, file_state, checkpoints, sync_errors, cache >>
poolVars  == << task_queue, result_queue, stats, stop_flag, workers >>

Workers == 1..NumWorkers

NoResult == [success |-> FALSE, rel_path |-> <<>>, size |-> 0, error |-> "none",
             retry_count |-> 0]
NoTask   == [rel_path |-> <<>>, size |-> 0, prio |-> 0, retry_count |-> 0]

WorkerNone == [st |-> "none", task |-> NoTask, retried |-> FALSE]
\* a worker that leaves its loop instead of waiting for the next task
WorkerIdle_M == [st |-> "exited", task |-> NoTask, retried |-> FALSE]

WorkerIdle == [st |-> "idle", task |-> NoTask, retried |-> FALSE]
\* a worker that stays in its loop when stop_flag is set
WorkerExited_M == [st |-> "idle", task |-> NoTask, retried |-> FALSE]

\* a worker thread that has left its loop and closed its connection
WorkerExited == [st |-> "exited", task |-> NoTask, retried |-> FALSE]

StatsZero == [total_files |-> 0, completed |-> 0, failed |-> 0, bytes_transferred |-> 0]

OrchIdle ==
    [pc |-> "idle", sync_id |-> 0, remote_files |-> EmptyIndex,
     to_download |-> EmptyIndex, total_bytes |-> 0, deleted |-> {}, del_todo |-> {},
     batch_num |-> 0, transfer |-> "none", tar_extracted |-> 0, tar_errors |-> {},
     success_count |-> 0, failed_count |-> 0, last_checkpoint |-> 0,
     results |-> <<>>, files_found |-> 0, strategy |-> "none", outcome |-> "none"]

Servers ==
    { [sftp |-> TRUE, mlsd |-> TRUE, link_type |-> "lnk", unique |-> FALSE] } \cup
    { [sftp |-> FALSE, mlsd |-> TRUE, link_type |-> lt, unique |-> FALSE]
      : lt \in {"lnk", "OS.unix=symlink"} } \cup
    { [sftp |-> FALSE, mlsd |-> FALSE, link_type |-> "lnk", unique |-> FALSE] }

\* the default options, and the default options with one of them off
AllOptions ==
    [handle_deletions : BOOLEAN, exclude_patterns : BOOLEAN,
     use_incremental_scan : BOOLEAN, verify_integrity : BOOLEAN]

Options ==
    { o \in AllOptions :
        Cardinality({ k \in {"handle_deletions", "exclude_patterns",
                             "use_incremental_scan", "verify_integrity"} : ~o[k] }) <= 1 }

\* the trees the server may hold at the start
InitialTrees ==
    { t \in [RemotePaths -> [kind : {"file", "lnk"}, size : {1000}, modify : {"t1"}]
                            \cup {NoFile}] :
        /\ \A p \in RemotePaths : t[p] \in RemoteEntry(p) \cup {NoFile}
        /\ t[FileA] # NoFile }

\* the cache of _load_cache when there is no cache file
NoCache == [files |-> EmptyIndex, fresh |-> FALSE, scan_strategy |-> "full"]

\* no call of update_file_batch is under way
NoBatch == [files |-> EmptyIndex, batch_size |-> 1, pre |-> EmptyIndex,
            store |-> EmptyIndex, pending |-> {}, batch_num |-> 0, pc |-> "none"]

\* no function is being applied
NoFn == [fn |-> "none"]

\* no call of download_files
NoTar ==
    [pc |-> "none", caller |-> "none", file_list |-> {}, present |-> {},
     sftp_client |-> FALSE, verify_integrity |-> FALSE, local |-> <<>>,
     files_extracted |-> 0, errors |-> {}, tiers |-> <<>>, retry |-> {},
     stop |-> FALSE]

NoDiff == [remote_files |-> EmptyIndex, current_state |-> EmptyIndex,
           handle_deletions |-> TRUE, applied |-> "none",
           files_to_download |-> <<>>, total_bytes |-> 0, deleted_files |-> {}]

HistInit ==
    [run |-> 0, events |-> 0, crashes |-> 0,
     startup_state |-> EmptyIndex, startup_local |-> EmptyIndex,
     prev_outcome |-> "none", crash_pc |-> "none", crash_deleted |-> {},
     changed |-> FALSE,
     prev_changed |-> FALSE,
     stalled |-> FALSE, partial |-> FALSE, prev_partial |-> FALSE,
     prev_fresh |-> FALSE, prev_failed |-> {}]

Init ==
    /\ remote \in InitialTrees
    /\ server \in Servers
    /\ options \in Options
    /\ localfs = EmptyIndex
    /\ file_state = EmptyIndex
    /\ checkpoints = <<>>
    /\ sync_errors = <<>>
    /\ cache = NoCache
    /\ orch = OrchIdle
    /\ task_queue = {}
    /\ result_queue = <<>>
    /\ stats = StatsZero
    /\ stop_flag = FALSE
    /\ workers = [w \in Workers |-> WorkerNone]
    /\ hist = HistInit
    /\ diff_io = NoDiff
    /\ batch_io = NoBatch
    /\ tar_io = NoTar
    /\ fn_io = NoFn

\* ------------------------------------------------------------------------
\* The environment
\* ------------------------------------------------------------------------

\* a file of the server is created, rewritten or removed: between two runs,
\* or between the scan and the transfer of a run
RemoteChange(p, e) ==
    /\ hist.events < MaxEvents
    /\ \/ orch.pc = "idle" /\ hist.run > 0
       \/ orch.pc = "transfer"
    /\ e # remote[p]
    /\ remote' = [remote EXCEPT ![p] = e]
    /\ hist' = [hist EXCEPT !.events = @ + 1, !.changed = TRUE]
    /\ UNCHANGED << server, options, diskVars, orch, poolVars, diff_io, batch_io,
                    tar_io, fn_io >>

\* ------------------------------------------------------------------------
\* BackupOptimizedMixin.backup_optimized: scan, exclusions, diff, deletions
\* ------------------------------------------------------------------------

\* backup_optimized is entered: StateManager(state_db_path), sync_id.
\* A behaviour has at most MaxRuns runs, and none after a killed one.
StartRun ==
    /\ orch.pc = "idle"
    /\ hist.run < MaxRuns
    /\ hist.crashes = 0
    /\ orch' = [OrchIdle EXCEPT !.pc = "scan", !.sync_id = hist.run + 1]
    /\ hist' = [hist EXCEPT !.run = @ + 1,
                            !.startup_state = file_state,
                            !.startup_local = localfs,
                            !.prev_changed = hist.changed,
                            !.changed = FALSE,
                            !.stalled = FALSE,
                            !.prev_partial = hist.partial,
                            !.partial = FALSE,
                            !.prev_fresh = cache.fresh]
    /\ task_queue' = {}
    /\ result_queue' = <<>>
    /\ stats' = StatsZero
    /\ stop_flag' = FALSE
    /\ workers' = [w \in Workers |-> WorkerNone]
    /\ checkpoints' = <<>>
    /\ sync_errors' = <<>>
    /\ UNCHANGED << envVars, localfs, file_state, cache, diff_io, batch_io, tar_io, fn_io >>

\* _should_use_incremental; expired: more than incremental_threshold_hours
\* have passed since cache.last_full_scan
should_use_incremental(c, expired) == c.fresh /\ ~expired /\ DOMAIN c.files # {}

\* IncrementalScanner.scan_smart; ssh_ok: the find command gives a listing;
\* fault: the listing fault a full scan meets.  In the cache, fresh stands
\* for "last_full_scan is less than the threshold old".
scan_smart(srv, tree, c, ssh_ok, expired, fault) ==
    IF srv.sftp /\ ssh_ok
    THEN LET files == scan_ssh_find(tree)
         IN  [files |-> files, strategy |-> "ssh_find",
              cache |-> [files |-> files, fresh |-> TRUE,
                         scan_strategy |-> "ssh_find"]]
    ELSE IF should_use_incremental(c, expired)
    THEN LET files == scan_incremental(srv, tree, c.files)
         IN  [files |-> files, strategy |-> "incremental",
              cache |-> [files |-> files, fresh |-> c.fresh,
                         scan_strategy |-> "incremental"]]
    ELSE LET files == scan_full(srv, tree, LostDirs(fault))
         IN  [files |-> files, strategy |-> "full",
              cache |-> IF scan_errors(srv, tree, fault) = 0
                        THEN [files |-> files, fresh |-> TRUE,
                              scan_strategy |-> "full"]
                        ELSE [files |-> files, fresh |-> c.fresh /\ ~expired,
                              scan_strategy |-> "partial"]]

\* "if not remote_files" that never takes the early return
NoFilesFound_M(remote_files) == FALSE

\* "if not remote_files"
NoFilesFound(remote_files) == DOMAIN remote_files = {}

\* PHASE 1, and "if not remote_files: return".  A listing fault is met by a
\* full scan that walks into DirD, and is one of the faults of a behaviour.
Scan(ssh_ok, expired, fault) ==
    /\ orch.pc = "scan"
    /\ LET r == IF options.use_incremental_scan
                THEN scan_smart(server, remote, cache, ssh_ok, expired, fault)
                ELSE [files |-> get_remote_files(server, remote, <<>>),
                      strategy |-> "classic", cache |-> cache]
       IN  /\ fault # "none" => /\ r.strategy = "full"
                                /\ ReachesDirD(server, remote)
                                /\ hist.events < MaxEvents
           /\ hist' = [hist EXCEPT
                         !.events = IF fault # "none" THEN @ + 1 ELSE @,
                         !.partial = r.strategy = "full" /\ fault # "none"]
           /\ cache' = r.cache
           /\ orch' = IF NoFilesFound(r.files)
                      THEN [orch EXCEPT !.pc = "done", !.outcome = "no_files",
                                        !.strategy = r.strategy,
                                        !.files_found = Cardinality(DOMAIN r.files)]
                      ELSE [orch EXCEPT !.pc = "diff", !.remote_files = r.files,
                                        !.strategy = r.strategy,
                                        !.files_found = Cardinality(DOMAIN r.files)]
    /\ UNCHANGED << envVars, localfs, file_state, checkpoints, sync_errors,
                    poolVars, diff_io, batch_io, tar_io, fn_io >>

\* the exclusions, then PHASE 2: find_files_to_download
Diff ==
    /\ orch.pc = "diff"
    /\ LET rf == ApplyExclusions(orch.remote_files, options.exclude_patterns)
           d  == find_files_to_download(file_state, rf)
       IN  orch' = [orch EXCEPT
                      !.remote_files = rf,
                      !.to_download  = d.files_to_download,
                      !.total_bytes  = d.total_bytes,
                      !.deleted      = d.deleted_files,
                      !.del_todo     = d.deleted_files,
                      !.pc = IF options.handle_deletions /\ d.deleted_files # {}
                             THEN "delete_local" ELSE "transfer"]
    /\ UNCHANGED << envVars, diskVars, poolVars, hist, diff_io, batch_io, tar_io, fn_io >>

\* one turn of the loop of handle_deleted_files: os.remove(local_file_path)
DeleteLocal(rel_path) ==
    /\ orch.pc = "delete_local"
    /\ rel_path \in orch.del_todo
    /\ localfs' = Restrict(localfs, (DOMAIN localfs) \ {rel_path})
    /\ orch' = [orch EXCEPT !.del_todo = @ \ {rel_path},
                            !.pc = IF orch.del_todo = {rel_path}
                                   THEN "delete_state" ELSE "delete_local"]
    /\ UNCHANGED << envVars, file_state, checkpoints, sync_errors, cache,
                    poolVars, hist, diff_io, batch_io, tar_io, fn_io >>

\* state_manager.delete_files(list(deleted_files)): one batch, one commit
DeleteState ==
    /\ orch.pc = "delete_state"
    /\ LET rel_paths == SetToSeq(orch.deleted)
           i         == orch.batch_num * DeleteBatchSize
           last      == IF i + DeleteBatchSize < Len(rel_paths)
                        THEN i + DeleteBatchSize ELSE Len(rel_paths)
           batch     == Range(SubSeq(rel_paths, i + 1, last))
       IN  /\ file_state' = DeleteBatch(file_state, batch)
           /\ orch' = IF last < Len(rel_paths)
                      THEN [orch EXCEPT !.batch_num = @ + 1]
                      ELSE [orch EXCEPT !.batch_num = 0, !.pc = "transfer"]
    /\ UNCHANGED << envVars, localfs, checkpoints, sync_errors, cache,
                    poolVars, hist, diff_io, batch_io, tar_io, fn_io >>

\* ------------------------------------------------------------------------
\* backup_optimized: the choice of the transfer
\* ------------------------------------------------------------------------

\* "if not files_to_download": the Index is saved and the function returns
UpToDate ==
    /\ orch.pc = "transfer"
    /\ DOMAIN orch.to_download = {}
    /\ orch' = [orch EXCEPT !.pc = "commit", !.outcome = "up_to_date"]
    /\ UNCHANGED << envVars, diskVars, poolVars, hist, diff_io, batch_io, tar_io, fn_io >>

\* the test of the tar stream without the port
TarEligible_M ==
    Cardinality(DOMAIN orch.to_download) >= TAR_STREAM_THRESHOLD

\* self.ftp_port == 22 and len(files_to_download) >= TAR_STREAM_THRESHOLD
TarEligible ==
    /\ server.sftp
    /\ Cardinality(DOMAIN orch.to_download) >= TAR_STREAM_THRESHOLD

\* use_full_tar = len(files_to_download) >= len(remote_files) * 0.8
use_full_tar ==
    5 * Cardinality(DOMAIN orch.to_download) >= 4 * Cardinality(DOMAIN orch.remote_files)

\* tar_dl.is_available() holds: the tar stream is chosen
StartTar ==
    /\ orch.pc = "transfer"
    /\ DOMAIN orch.to_download # {}
    /\ TarEligible
    /\ orch' = [orch EXCEPT !.pc = "tar_stream",
                            !.transfer = IF use_full_tar THEN "tar_full"
                                         ELSE "tar_selective"]
    /\ UNCHANGED << envVars, diskVars, poolVars, hist, diff_io, batch_io, tar_io, fn_io >>

\* ParallelDownloader.add_tasks and start: the tasks in list order get the
\* queue priorities 0, 1, ...; n worker threads are started
PoolStarted(order, size_lookup, n) ==
    /\ task_queue' = { [rel_path |-> order[i],
                        size |-> IF order[i] \in DOMAIN size_lookup
                                 THEN size_lookup[order[i]] ELSE 0,
                        prio |-> i - 1, retry_count |-> 0] : i \in 1..Len(order) }
    /\ result_queue' = <<>>
    /\ stats' = [StatsZero EXCEPT !.total_files = Len(order)]
    /\ stop_flag' = FALSE
    /\ workers' = [w \in Workers |-> IF w <= n THEN WorkerIdle ELSE WorkerNone]

\* the per-file pool: the default ("none"), and the fallback when
\* tar_dl.is_available() is false ("unavailable") or the tar attempt raised
\* ("raised")
StartPool(fallback) ==
    /\ orch.pc = "transfer"
    /\ DOMAIN orch.to_download # {}
    /\ IF TarEligible THEN fallback \in {"unavailable", "raised"} ELSE fallback = "none"
    /\ fallback = "raised" => hist.events < MaxEvents
    /\ hist' = IF fallback = "raised" THEN [hist EXCEPT !.events = @ + 1] ELSE hist
    /\ orch' = [orch EXCEPT !.pc = "wait", !.transfer = "pool"]
    /\ PoolStarted(SetToSeq(DOMAIN orch.to_download), orch.to_download, NumWorkers)
    /\ UNCHANGED << envVars, diskVars, diff_io, batch_io, tar_io, fn_io >>

\* ------------------------------------------------------------------------
\* ParallelDownloader: the workers
\* ------------------------------------------------------------------------

Max(a, b) == IF a >= b THEN a ELSE b
Abs(a)    == IF a >= 0 THEN a ELSE 0 - a

\* get_remote_file_info(...)['size']: 0 without a shell or for a missing file
get_remote_file_info(srv, tree, rel_path) ==
    IF srv.sftp /\ rel_path \in Present(tree) THEN tree[rel_path].size ELSE 0

\* _verify_download with a tolerance of 10 bytes whatever the size
verify_download_M(srv, tree, task, actual_size) ==
    IF task.size > 0
    THEN IF Abs(actual_size - task.size) <= 10
         THEN [ok |-> TRUE, new_size |-> actual_size]
         ELSE IF srv.sftp
         THEN LET new_size == get_remote_file_info(srv, tree, task.rel_path)
              IN  IF new_size # task.size
                  THEN [ok |-> TRUE, new_size |-> new_size]
                  ELSE [ok |-> FALSE, new_size |-> 0]
         ELSE [ok |-> FALSE, new_size |-> 0]
    ELSE [ok |-> TRUE, new_size |-> 0]

\* _verify_download without the hash option: [ok, new_size]; new_size 0
\* stands for None.  Without an expected size nothing is verified.
verify_download(srv, tree, task, actual_size) ==
    IF task.size > 0
    THEN LET tolerance == Max(task.size \div 1000, 10)
         IN  IF Abs(actual_size - task.size) <= tolerance
             THEN [ok |-> TRUE, new_size |-> actual_size]
             ELSE IF srv.sftp
             THEN LET new_size == get_remote_file_info(srv, tree, task.rel_path)
                  IN  IF new_size # task.size
                      THEN [ok |-> TRUE, new_size |-> new_size]
                      ELSE [ok |-> FALSE, new_size |-> 0]
             ELSE [ok |-> FALSE, new_size |-> 0]
    ELSE [ok |-> TRUE, new_size |-> 0]

\* verify_download_integrity of checksum_utils without a hash: the size
\* comparison, made only "if expected_size"
verify_download_integrity(expected_size, local_size) ==
    IF expected_size # 0
    THEN Abs(local_size - expected_size) <= Max(expected_size \div 1000, 10)
    ELSE TRUE

\* _smart_rescan_and_retry: a Result, or NoResult for None
smart_rescan_and_retry(srv, tree, task) ==
    LET new_size == get_remote_file_info(srv, tree, task.rel_path)
    IN  IF new_size # task.size
        THEN [success |-> TRUE, rel_path |-> task.rel_path, size |-> new_size,
              error |-> "size_updated", retry_count |-> 0]
        ELSE NoResult

Failure_M(task, error) ==
    [success |-> FALSE, rel_path |-> task.rel_path, size |-> 0, error |-> error,
     retry_count |-> task.retry_count + (IF error = "conn" THEN 0 ELSE 1)]

Failure(task, error) ==
    [success |-> FALSE, rel_path |-> task.rel_path, size |-> 0, error |-> error,
     retry_count |-> task.retry_count]

Success(task, size) ==
    [success |-> TRUE, rel_path |-> task.rel_path, size |-> size, error |-> "none",
     retry_count |-> task.retry_count]

\* _download_file: outcome "ok" (every byte of the remote file arrives),
\* "short" (the transfer ends early without an error), "conn" (an exception
\* whose message is a connection error) or "err" (another exception).
\* Gives the local tree, the Result and the new stats.
download_file(srv, tree, opts, lf, st, task, outcome) ==
    LET rel     == task.rel_path
        removed == Restrict(lf, (DOMAIN lf) \ {rel})
    IN  IF outcome \in {"conn", "err"}
        THEN [localfs |-> removed, result |-> Failure(task, outcome),
              stats |-> [st EXCEPT !.failed = @ + 1]]
        ELSE
        LET actual  == IF outcome = "ok" THEN tree[rel].size ELSE 0
            written == Update(lf, [q \in {rel} |-> actual])
            v       == IF opts.verify_integrity /\ task.size > 0
                       THEN verify_download(srv, tree, task, actual)
                       ELSE [ok |-> TRUE, new_size |-> 0]
            smart   == smart_rescan_and_retry(srv, tree, task)
        IN  IF ~v.ok
            THEN IF task.retry_count = 0 /\ smart # NoResult
                 THEN [localfs |-> written, result |-> smart, stats |-> st]
                 ELSE [localfs |-> removed, result |-> Failure(task, "verify"),
                       stats |-> st]
            ELSE LET actual_size == IF v.new_size # 0 THEN v.new_size ELSE task.size
                 IN  [localfs |-> written, result |-> Success(task, actual_size),
                      stats |-> [st EXCEPT !.completed = @ + 1,
                                           !.bytes_transferred = @ + actual_size]]

Outcomes == {"ok", "short", "conn", "err"}

\* task_queue.get: the entry of least priority; the idle workers are
\* interchangeable, the first of them is taken to get the task
WorkerDequeue(w) ==
    /\ workers[w].st = "idle"
    /\ \A v \in Workers : v < w => workers[v].st # "idle"
    /\ ~stop_flag
    /\ \E e \in task_queue :
         /\ \A y \in task_queue : e.prio <= y.prio
         /\ task_queue' = task_queue \ {e}
         /\ workers' = [workers EXCEPT ![w] = [st |-> "busy", task |-> e,
                                               retried |-> FALSE]]
    /\ UNCHANGED << envVars, diskVars, orch, result_queue, stats, stop_flag, hist,
                    diff_io, batch_io, tar_io, fn_io >>

\* the retry of _worker with one requeue more than max_retries
Requeue_M(queue, task, result) ==
    IF ~result.success /\ task.retry_count <= MaxRetries
    THEN queue \cup {[task EXCEPT !.retry_count = @ + 1, !.prio = @ + 100]}
    ELSE queue

\* the retry of _worker: after a failure the task goes back to the queue
\* with priority + 100 while retry_count < max_retries
Requeue(queue, task, result) ==
    IF ~result.success /\ task.retry_count < MaxRetries
    THEN queue \cup {[task EXCEPT !.retry_count = @ + 1, !.prio = @ + 100]}
    ELSE queue

\* the immediate retry counted as a requeue
RetryNow_M(worker) ==
    [worker EXCEPT !.retried = TRUE, !.task.retry_count = @ + 1]

\* after a connection error and _reconnect the worker calls _download_file
\* again with the task it holds
RetryNow(worker) == [worker EXCEPT !.retried = TRUE]

\* The rest of the loop body of _worker for worker w: one call of
\* _download_file; after a connection error the worker reconnects
\* (reconnect_ok) and calls _download_file once more; otherwise
\* result_queue.put(result), and the retry: the task goes back to the queue
\* with priority + 100 while retry_count < max_retries; the loop ends when
\* stop_flag is set
WorkerAttempt(w, outcome, reconnect_ok) ==
    /\ workers[w].st = "busy"
    /\ LET task    == workers[w].task
           present == task.rel_path \in Present(remote)
           forced  == ~present /\ outcome = "err"
           r       == download_file(server, remote, options, localfs, stats, task,
                                    outcome)
           again   == /\ ~r.result.success
                      /\ r.result.error = "conn"
                      /\ ~workers[w].retried
                      /\ reconnect_ok
       IN  /\ outcome \in {"ok", "short"} => present
           /\ outcome \in {"short", "conn", "err"} /\ ~forced => hist.events < MaxEvents
           /\ reconnect_ok => outcome = "conn" /\ ~workers[w].retried
           /\ hist' = IF outcome = "ok" \/ forced THEN hist
                      ELSE [hist EXCEPT !.events = @ + 1]
           /\ localfs' = r.localfs
           /\ stats' = r.stats
           /\ IF again
              THEN /\ workers' = [workers EXCEPT ![w] = RetryNow(@)]
                   /\ UNCHANGED << task_queue, result_queue >>
              ELSE /\ workers' = [workers EXCEPT ![w] =
                                    IF stop_flag THEN WorkerExited ELSE WorkerIdle]
                   /\ result_queue' = Append(result_queue, r.result)
                   /\ task_queue' = Requeue(task_queue, task, r.result)
    /\ UNCHANGED << envVars, file_state, checkpoints, sync_errors, cache, orch,
                    stop_flag, diff_io, batch_io, tar_io >>

\* the loop body of _worker in a run of backup_optimized
WorkerDownload(w, outcome, reconnect_ok) ==
    /\ WorkerAttempt(w, outcome, reconnect_ok)
    /\ UNCHANGED fn_io

\* ------------------------------------------------------------------------
\* wait_completion, stop, collect_results
\* ------------------------------------------------------------------------

\* progress_callback(completed, total, stats) of backup_optimized, called by
\* wait_completion with completed = stats['completed'] + stats['failed']: an
\* in_progress checkpoint every checkpoint_interval files (the retry pool of
\* the tar path has no callback)
AfterCallback(o, cps) ==
    LET completed == stats.completed + stats.failed
    IN  IF o.transfer = "pool" /\ completed - o.last_checkpoint >= CheckpointInterval
        THEN [orch |-> [o EXCEPT !.last_checkpoint = completed],
              checkpoints |-> Append(cps, [sync_id |-> o.sync_id,
                                           files_processed |-> completed,
                                           files_total |-> stats.total_files,
                                           bytes_transferred |-> stats.bytes_transferred,
                                           status |-> "in_progress"])]
        ELSE [orch |-> o, checkpoints |-> cps]

\* one turn of the loop of wait_completion that neither ends nor stalls
WaitProgress ==
    /\ orch.pc = "wait"
    /\ AfterCallback(orch, checkpoints).orch # orch
    /\ orch' = AfterCallback(orch, checkpoints).orch
    /\ checkpoints' = AfterCallback(orch, checkpoints).checkpoints
    /\ UNCHANGED << envVars, localfs, file_state, sync_errors, cache, poolVars, hist,
                    diff_io, batch_io, tar_io, fn_io >>

Finished == stats.completed + stats.failed >= stats.total_files /\ task_queue = {}

\* no worker gets anything done for stall_timeout (300 s): each one is
\* inside a transfer, or finds the queue empty
Stalled ==
    /\ ~Finished
    /\ \A w \in Workers : \/ workers[w].st \in {"none", "busy"}
                          \/ workers[w].st = "idle" /\ task_queue = {}

\* wait_completion returns (all files accounted for, or, with stalled, no
\* completion for 300 s), then stop() sets stop_flag: the workers that wait
\* on the queue leave their loop within the 2 s of their get(timeout=2)
WaitEnd(stalled) ==
    /\ orch.pc = "wait"
    /\ IF stalled THEN Stalled ELSE Finished
    /\ orch' = [AfterCallback(orch, checkpoints).orch EXCEPT !.pc = "join"]
    /\ checkpoints' = AfterCallback(orch, checkpoints).checkpoints
    /\ stop_flag' = TRUE
    /\ workers' = [w \in Workers |-> IF workers[w].st = "idle" THEN WorkerExited
                                     ELSE workers[w]]
    /\ hist' = [hist EXCEPT !.stalled = stalled]
    /\ UNCHANGED << envVars, localfs, file_state, sync_errors, cache, task_queue,
                    result_queue, stats, diff_io, batch_io, tar_io, fn_io >>

Successes(results) == Cardinality({i \in 1..Len(results) : results[i].success})

\* log_error for every failed Result, in the order of the results
RECURSIVE LogErrors(_, _, _)
LogErrors(errors, sync_id, results) ==
    IF results = <<>> THEN errors
    ELSE LogErrors(IF Head(results).success THEN errors
                   ELSE Append(errors, [sync_id |-> sync_id,
                                        rel_path |-> Head(results).rel_path,
                                        retry_count |-> Head(results).retry_count]),
                   sync_id, Tail(results))

\* stop() returns: every worker has ended or is still inside a transfer
\* when its join(timeout=10) gives up; then collect_results and the counts
Collect ==
    /\ orch.pc = "join"
    /\ LET results == result_queue
       IN  /\ result_queue' = <<>>
           /\ sync_errors' = LogErrors(sync_errors, orch.sync_id, results)
           /\ orch' = IF orch.transfer = "pool"
                      THEN [orch EXCEPT
                              !.pc = "commit",
                              !.results = results,
                              !.success_count = Successes(results),
                              !.failed_count  = Len(results) - Successes(results)]
                      ELSE [orch EXCEPT
                              !.pc = "commit",
                              !.results = results,
                              !.success_count = @ + Successes(results),
                              !.failed_count  = Cardinality(DOMAIN orch.to_download)
                                                - (orch.success_count + Successes(results))]
    /\ UNCHANGED << envVars, localfs, file_state, checkpoints, cache, task_queue,
                    stats, stop_flag, workers, hist, diff_io, batch_io, tar_io, fn_io >>

\* ------------------------------------------------------------------------
\* The tar stream
\* ------------------------------------------------------------------------

StreamError == <<"s", "t", "r", "e", "a", "m", " ", "e", "r", "r", "o", "r">>

\* what "tar c zhf - --ignore-failed-read" puts in the archive: the whole
\* tree for download_all, the listed paths that exist for download_files;
\* with h a link is archived as the file it points to
TarMembers(tree, to_download, mode) ==
    IF mode = "tar_full" THEN Present(tree)
    ELSE (DOMAIN to_download) \cap Present(tree)

\* download_all / download_files: the members of extracted are written; a
\* stream that breaks leaves the rest out, may leave the member it was
\* writing (partial) cut short, and is recorded in stats['errors']
TarStream(extracted, partial) ==
    /\ orch.pc = "tar_stream"
    /\ LET members == TarMembers(remote, orch.to_download, orch.transfer)
           broken  == extracted # members
       IN  /\ extracted \subseteq members
           /\ partial \subseteq members \ extracted
           /\ Cardinality(partial) <= 1
           /\ ~broken => partial = {}
           /\ broken => hist.events < MaxEvents
           /\ hist' = IF broken THEN [hist EXCEPT !.events = @ + 1] ELSE hist
           /\ localfs' = Update(Update(localfs, [p \in extracted |-> remote[p].size]),
                                [p \in partial |-> 0])
           /\ orch' = [orch EXCEPT
                         !.pc = "tar_verify",
                         !.tar_extracted = Cardinality(extracted),
                         !.tar_errors = IF broken THEN partial \cup {StreamError} ELSE {}]
    /\ UNCHANGED << envVars, file_state, checkpoints, sync_errors, cache, poolVars,
                    diff_io, batch_io, tar_io, fn_io >>

\* TarStreamDownloader.verify_extraction(expected)
verify_extraction(lf, expected_files) ==
    { rel_path \in DOMAIN expected_files :
        \/ rel_path \notin DOMAIN lf
        \/ expected_files[rel_path] > 0 /\ lf[rel_path] # expected_files[rel_path] }

\* success_count, failed_files, the verification, and the retry pool
TarVerify ==
    /\ orch.pc = "tar_verify"
    /\ LET verify_failed == IF options.verify_integrity
                            THEN verify_extraction(localfs, orch.to_download) ELSE {}
           failed_files  == IF verify_failed # {} THEN verify_failed ELSE orch.tar_errors
           success_count == IF verify_failed # {}
                            THEN Cardinality(DOMAIN orch.to_download)
                                 - Cardinality(verify_failed)
                            ELSE orch.tar_extracted
           n             == IF RetryWorkers < NumWorkers THEN RetryWorkers ELSE NumWorkers
       IN  IF failed_files # {}
           THEN /\ orch' = [orch EXCEPT !.pc = "wait", !.success_count = success_count]
                /\ PoolStarted(SetToSeq(failed_files), orch.to_download, n)
           ELSE /\ orch' = [orch EXCEPT
                              !.pc = "commit",
                              !.success_count = success_count,
                              !.failed_count = Cardinality(DOMAIN orch.to_download)
                                               - success_count]
                /\ UNCHANGED poolVars
    /\ UNCHANGED << envVars, diskVars, hist, diff_io, batch_io, tar_io, fn_io >>

\* ------------------------------------------------------------------------
\* PHASE 5, the final checkpoint, the end of a run
\* ------------------------------------------------------------------------

\* one batch of state_manager.update_file_batch(remote_files, batch_size=5000)
CommitBatch ==
    /\ orch.pc = "commit"
    /\ LET total_batches == TotalBatches(orch.remote_files, CommitBatchSize)
           next == IF orch.outcome = "up_to_date" THEN "done" ELSE "checkpoint"
       IN  IF total_batches = 0
           THEN /\ file_state' = file_state
                /\ orch' = [orch EXCEPT !.pc = next]
           ELSE /\ file_state' = UpsertBatch(file_state, orch.remote_files,
                                     BatchPaths(orch.remote_files, CommitBatchSize,
                                                orch.batch_num))
                /\ orch' = IF orch.batch_num + 1 = total_batches
                           THEN [orch EXCEPT !.batch_num = 0, !.pc = next]
                           ELSE [orch EXCEPT !.batch_num = @ + 1]
    /\ UNCHANGED << envVars, localfs, checkpoints, sync_errors, cache, poolVars, hist,
                    diff_io, batch_io, tar_io, fn_io >>

\* create_checkpoint(..., status='completed' if failed_count == 0 else
\* 'completed_with_errors')
FinalCheckpoint ==
    /\ orch.pc = "checkpoint"
    /\ LET status == IF orch.failed_count = 0 THEN "completed"
                     ELSE "completed_with_errors"
       IN  /\ checkpoints' = Append(checkpoints,
                 [sync_id |-> orch.sync_id,
                  files_processed |-> Cardinality(DOMAIN orch.to_download),
                  files_total |-> Cardinality(DOMAIN orch.to_download),
                  bytes_transferred |-> orch.total_bytes,
                  status |-> status])
           /\ orch' = [orch EXCEPT !.pc = "done", !.outcome = status]
    /\ UNCHANGED << envVars, localfs, file_state, sync_errors, cache, poolVars, hist,
                    diff_io, batch_io, tar_io, fn_io >>

PoolReset ==
    /\ task_queue' = {}
    /\ result_queue' = <<>>
    /\ stats' = StatsZero
    /\ stop_flag' = FALSE
    /\ workers' = [w \in Workers |-> WorkerNone]

\* backup_optimized returns and the process ends
EndRun ==
    /\ orch.pc = "done"
    /\ orch' = OrchIdle
    /\ hist' = [hist EXCEPT
                   !.prev_outcome = orch.outcome,
                   !.crash_pc = "none",
                   !.prev_failed =
                      { orch.results[i].rel_path : i \in 1..Len(orch.results) }
                      \ { orch.results[i].rel_path
                           : i \in {j \in 1..Len(orch.results) :
                                      orch.results[j].success} }]
    /\ PoolReset
    /\ UNCHANGED << envVars, diskVars, diff_io, batch_io, tar_io, fn_io >>

\* the process is killed in the middle of a run
Crash ==
    /\ orch.pc \notin {"idle", "done"}
    /\ hist.crashes < MaxCrashes
    /\ orch' = OrchIdle
    /\ hist' = [hist EXCEPT !.prev_outcome = "crashed", !.crash_pc = orch.pc,
                            !.crash_deleted = orch.deleted,
                            !.crashes = @ + 1]
    /\ PoolReset
    /\ UNCHANGED << envVars, diskVars, diff_io, batch_io, tar_io, fn_io >>

Next ==
    \/ \E p \in RemotePaths : \E e \in RemoteEntry(p) \cup {NoFile} : RemoteChange(p, e)
    \/ StartRun
    \/ \E ssh_ok \in BOOLEAN : \E expired \in BOOLEAN : \E fault \in ScanFaults :
          Scan(ssh_ok, expired, fault)
    \/ Diff
    \/ \E rel_path \in RemotePaths : DeleteLocal(rel_path)
    \/ DeleteState
    \/ UpToDate
    \/ StartTar
    \/ \E fallback \in {"none", "unavailable", "raised"} : StartPool(fallback)
    \/ \E w \in Workers : WorkerDequeue(w)
    \/ \E w \in Workers : \E outcome \in Outcomes : \E reconnect_ok \in BOOLEAN :
          WorkerDownload(w, outcome, reconnect_ok)
    \/ WaitProgress
    \/ \E stalled \in BOOLEAN : WaitEnd(stalled)
    \/ Collect
    \/ \E extracted \in SUBSET RemotePaths : \E partial \in SUBSET RemotePaths :
          TarStream(extracted, partial)
    \/ TarVerify
    \/ CommitBatch
    \/ FinalCheckpoint
    \/ EndRun
    \/ Crash

Spec == Init /\ [][Next]_vars

\* ------------------------------------------------------------------------
\* A run that follows a completed run: the store, the local tree and the
\* scan cache hold a (1000 bytes, t1), and the server's tree has moved on
\* ------------------------------------------------------------------------

PriorIndex == [p \in {FileA} |-> [size |-> 1000, modify |-> "t1"]]

\* the trees the server may hold when the next run starts: a as it was or
\* rewritten, d/x.log and the link l there or not
PriorTrees ==
    { t \in [RemotePaths -> UNION {RemoteEntry(p) : p \in RemotePaths} \cup {NoFile}] :
        /\ t[FileA] \in RemoteEntry(FileA)
        /\ t[FileLog] \in {NoFile, [kind |-> "file", size |-> 1000, modify |-> "t1"]}
        /\ t[LinkL] \in RemoteEntry(LinkL) \cup {NoFile} }

InitPrior ==
    /\ remote \in PriorTrees
    /\ server \in Servers
    /\ options \in Options
    /\ localfs = [p \in {FileA} |-> 1000]
    /\ file_state = PriorIndex
    /\ checkpoints = <<>>
    /\ sync_errors = <<>>
    /\ cache = [files |-> PriorIndex, fresh |-> TRUE, scan_strategy |-> "full"]
    /\ orch = OrchIdle
    /\ task_queue = {}
    /\ result_queue = <<>>
    /\ stats = StatsZero
    /\ stop_flag = FALSE
    /\ workers = [w \in Workers |-> WorkerNone]
    /\ hist = [HistInit EXCEPT !.run = 1, !.prev_outcome = "completed"]
    /\ diff_io = NoDiff
    /\ batch_io = NoBatch
    /\ tar_io = NoTar
    /\ fn_io = NoFn

SpecPrior == InitPrior /\ [][Next]_vars

\* ------------------------------------------------------------------------
\* The diff taken alone: every remote Index against every store content
\* ------------------------------------------------------------------------

DiffPaths == {FileA, FileLog}

\* the Indexes over DiffPaths
DiffIndexes ==
    UNION { [S -> [size : {1000, 1200}, modify : {"t1", "t2"}]] : S \in SUBSET DiffPaths }

InitDiff ==
    /\ remote = [p \in RemotePaths |-> NoFile]
    /\ server = [sftp |-> TRUE, mlsd |-> TRUE, link_type |-> "lnk", unique |-> FALSE]
    /\ options = [handle_deletions |-> TRUE, exclude_patterns |-> TRUE,
                  use_incremental_scan |-> TRUE, verify_integrity |-> TRUE]
    /\ localfs = EmptyIndex
    /\ file_state = EmptyIndex
    /\ checkpoints = <<>>
    /\ sync_errors = <<>>
    /\ cache = NoCache
    /\ orch = OrchIdle
    /\ task_queue = {}
    /\ result_queue = <<>>
    /\ stats = StatsZero
    /\ stop_flag = FALSE
    /\ workers = [w \in Workers |-> WorkerNone]
    /\ hist = HistInit
    /\ \E rf \in DiffIndexes : \E cs \in DiffIndexes : \E hd \in BOOLEAN :
          diff_io = [NoDiff EXCEPT !.remote_files = rf, !.current_state = cs,
                                   !.handle_deletions = hd]
    /\ batch_io = NoBatch
    /\ tar_io = NoTar
    /\ fn_io = NoFn

\* the loop of BackupMixin.backup on the inputs
ApplyClassicDiff ==
    /\ diff_io.applied = "none"
    /\ LET d == ClassicDiff(diff_io.remote_files, diff_io.current_state,
                            diff_io.handle_deletions)
       IN  diff_io' = [diff_io EXCEPT !.applied = "classic",
                                      !.files_to_download = d.files_to_download,
                                      !.total_bytes = d.total_bytes,
                                      !.deleted_files = d.deleted_files]
    /\ UNCHANGED << envVars, diskVars, orch, poolVars, hist, batch_io, tar_io, fn_io >>

\* state_manager.find_files_to_download on the inputs; the orchestrator
\* reads the list as (rel_path, size) pairs
ApplyOptimizedDiff ==
    /\ diff_io.applied = "none"
    /\ LET d == find_files_to_download(diff_io.current_state, diff_io.remote_files)
       IN  diff_io' = [diff_io EXCEPT
                         !.applied = "optimized",
                         !.files_to_download =
                             [i \in 1..Cardinality(DOMAIN d.files_to_download) |->
                                LET rp == SetToSeq(DOMAIN d.files_to_download)[i]
                                IN  <<rp, d.files_to_download[rp]>>],
                         !.total_bytes = d.total_bytes,
                         !.deleted_files = d.deleted_files]
    /\ UNCHANGED << envVars, diskVars, orch, poolVars, hist, batch_io, tar_io, fn_io >>

SpecDiff == InitDiff /\ [][ApplyClassicDiff \/ ApplyOptimizedDiff]_vars

\* ------------------------------------------------------------------------
\* update_file_batch taken alone: every files dict, on every store content,
\* with the batch sizes 1..MaxBatchSize, and a crash at any point
\* ------------------------------------------------------------------------

MaxBatchSize == 3

\* the Indexes over RemotePaths
BatchIndexes ==
    UNION { [S -> {[size |-> v[1], modify |-> v[2]] : v \in Versions}]
            : S \in SUBSET RemotePaths }

InitBatch ==
    /\ remote = [p \in RemotePaths |-> NoFile]
    /\ server = [sftp |-> TRUE, mlsd |-> TRUE, link_type |-> "lnk", unique |-> FALSE]
    /\ options = [handle_deletions |-> TRUE, exclude_patterns |-> TRUE,
                  use_incremental_scan |-> TRUE, verify_integrity |-> TRUE]
    /\ localfs = EmptyIndex
    /\ file_state = EmptyIndex
    /\ checkpoints = <<>>
    /\ sync_errors = <<>>
    /\ cache = NoCache
    /\ orch = OrchIdle
    /\ task_queue = {}
    /\ result_queue = <<>>
    /\ stats = StatsZero
    /\ stop_flag = FALSE
    /\ workers = [w \in Workers |-> WorkerNone]
    /\ hist = HistInit
    /\ diff_io = NoDiff
    /\ tar_io = NoTar
    /\ fn_io = NoFn
    /\ \E files \in BatchIndexes : \E st \in BatchIndexes : \E bs \in 1..MaxBatchSize :
          batch_io = [NoBatch EXCEPT !.files = files, !.batch_size = bs,
                                     !.pre = st, !.store = st, !.pc = "call"]

\* cursor.executemany(INSERT ... ON CONFLICT DO UPDATE) for the batch of
\* batch_num: the rows are written inside the open transaction
BatchExecute ==
    /\ batch_io.pc = "call"
    /\ batch_io.batch_num < TotalBatches(batch_io.files, batch_io.batch_size)
    /\ batch_io' = [batch_io EXCEPT
                      !.pc = "in_transaction",
                      !.pending = BatchPaths(batch_io.files, batch_io.batch_size,
                                             batch_io.batch_num)]
    /\ UNCHANGED << envVars, diskVars, orch, poolVars, hist, diff_io, tar_io, fn_io >>

\* conn.commit(): the rows of the transaction reach the committed table
BatchCommit ==
    /\ batch_io.pc = "in_transaction"
    /\ batch_io' = [batch_io EXCEPT
                      !.pc = "call",
                      !.store = UpsertBatch(batch_io.store, batch_io.files,
                                            batch_io.pending),
                      !.pending = {},
                      !.batch_num = @ + 1]
    /\ UNCHANGED << envVars, diskVars, orch, poolVars, hist, diff_io, tar_io, fn_io >>

\* the loop "for batch_num in range(total_batches)" is over
BatchReturn ==
    /\ batch_io.pc = "call"
    /\ batch_io.batch_num = TotalBatches(batch_io.files, batch_io.batch_size)
    /\ batch_io' = [batch_io EXCEPT !.pc = "returned"]
    /\ UNCHANGED << envVars, diskVars, orch, poolVars, hist, diff_io, tar_io, fn_io >>

\* the process is killed: SQLite rolls the open transaction back, the
\* committed table keeps the rows of the transactions that were committed
BatchCrash ==
    /\ batch_io.pc \in {"call", "in_transaction", "returned"}
    /\ batch_io' = [batch_io EXCEPT !.pc = "crashed"]
    /\ UNCHANGED << envVars, diskVars, orch, poolVars, hist, diff_io, tar_io, fn_io >>

SpecBatch ==
    InitBatch /\ [][BatchExecute \/ BatchCommit \/ BatchReturn \/ BatchCrash]_vars

\* ------------------------------------------------------------------------
\* TarStreamDownloader.download_files taken alone, and the hand-off of
\* backup_optimized to the retry pool
\* ------------------------------------------------------------------------

\* the program itself is not running
Quiescent ==
    /\ remote = [p \in RemotePaths |-> NoFile]
    /\ server = [sftp |-> TRUE, mlsd |-> TRUE, link_type |-> "lnk", unique |-> FALSE]
    /\ options = [handle_deletions |-> TRUE, exclude_patterns |-> TRUE,
                  use_incremental_scan |-> TRUE, verify_integrity |-> TRUE]
    /\ localfs = EmptyIndex
    /\ file_state = EmptyIndex
    /\ checkpoints = <<>>
    /\ sync_errors = <<>>
    /\ cache = NoCache
    /\ orch = OrchIdle
    /\ task_queue = {}
    /\ result_queue = <<>>
    /\ stats = StatsZero
    /\ stop_flag = FALSE
    /\ workers = [w \in Workers |-> WorkerNone]
    /\ hist = HistInit

\* the relative paths a file list is made of
TarListPaths == {FileA, FileLog}

\* expected = {rp: sz for rp, sz in files_to_download}
TarExpected(file_list) == [p \in file_list |-> 1000]

\* f"stream error (batch {batch_idx + 1}): {e}"
BatchStreamError ==
    <<"s", "t", "r", "e", "a", "m", " ", "e", "r", "r", "o", "r", " ", "(",
      "b", "a", "t", "c", "h", " ", "1", ")">>

InitTar ==
    /\ Quiescent
    /\ diff_io = NoDiff
    /\ batch_io = NoBatch
    /\ tar_io = NoTar
    /\ fn_io = NoFn

\* what one run of _stream_and_extract can do with the members the remote
\* tar can read: the members of extracted are written whole; the member of
\* partial fails inside its try block; raised: the stream ends with an
\* exception; exit_ok: the exit status of the remote tar is 0
StreamOutcome(file_list, members, extracted, partial, raised, exit_ok) ==
    /\ extracted \subseteq members
    /\ partial \subseteq members \ extracted
    /\ Cardinality(partial) <= 1
    /\ ~raised => extracted \cup partial = members
    /\ raised => extracted \cup partial # members \/ members = {}
    /\ raised => ~exit_ok
    /\ ~raised /\ ~exit_ok => members # file_list

\* the effect of _stream_and_extract on the local tree and on self.stats
stream_and_extract(io, extracted, partial) ==
    [io EXCEPT
       !.local = Update(Update(io.local, [p \in extracted |-> 1000]),
                        [p \in partial |-> 0]),
       !.files_extracted = @ + Cardinality(extracted),
       !.errors = @ \cup partial]

\* download_files(file_list, progress_callback, use_compression, sftp_client)
\* is entered.  backup_optimized calls it without the sftp_client argument.
TarCall(caller, file_list, present, sftp_client, verify_integrity) ==
    /\ tar_io.pc = "none"
    /\ fn_io = NoFn
    /\ present \subseteq file_list
    /\ caller = "orchestrator" => ~sftp_client /\ file_list # {}
    /\ tar_io' = [NoTar EXCEPT
                    !.pc = IF file_list = {} THEN "returned"
                           ELSE IF sftp_client THEN "tier1" ELSE "tier2",
                    !.caller = caller,
                    !.file_list = file_list,
                    !.present = present,
                    !.sftp_client = sftp_client,
                    !.verify_integrity = verify_integrity]
    /\ UNCHANGED << envVars, diskVars, orch, poolVars, hist, diff_io, batch_io, fn_io >>

\* _try_filelist_on_server: _find_writable_dir finds no directory
Tier1NoDir ==
    /\ tar_io.pc = "tier1"
    /\ tar_io' = [tar_io EXCEPT
                    !.pc = "tier2",
                    !.tiers = Append(@, [tier |-> 1, possible |-> FALSE,
                                         raised |-> FALSE, exit_ok |-> TRUE,
                                         extracted |-> 0, ok |-> FALSE])]
    /\ UNCHANGED << envVars, diskVars, orch, poolVars, hist, diff_io, batch_io, fn_io >>

\* TarStreamDownloader.stop() is called while download_files runs
TarStop ==
    /\ tar_io.pc \in {"tier1", "tier2"}
    /\ ~tar_io.stop
    /\ tar_io' = [tar_io EXCEPT !.stop = TRUE]
    /\ UNCHANGED << envVars, diskVars, orch, poolVars, hist, diff_io, batch_io, fn_io >>

\* _try_filelist_on_server: the list is written and tar -T runs; returns
\* True without an exception, and after one when files_extracted > 0; with
\* the stop flag set the loop over the members ends at its first member
Tier1Stream(extracted, partial, raised, exit_ok) ==
    /\ tar_io.pc = "tier1"
    /\ IF tar_io.stop
       THEN extracted = {} /\ partial = {} /\ ~raised
       ELSE StreamOutcome(tar_io.file_list, tar_io.file_list \cap tar_io.present,
                          extracted, partial, raised, exit_ok)
    /\ LET io == stream_and_extract(tar_io, extracted, partial)
           ok == ~raised \/ io.files_extracted > 0
       IN  tar_io' = [io EXCEPT
                        !.pc = IF ok THEN "returned" ELSE "tier2",
                        !.tiers = Append(@, [tier |-> 1, possible |-> TRUE,
                                             raised |-> raised, exit_ok |-> exit_ok,
                                             extracted |-> Cardinality(extracted),
                                             ok |-> ok])]
    /\ UNCHANGED << envVars, diskVars, orch, poolVars, hist, diff_io, batch_io, fn_io >>

\* _download_via_args: the paths of the model fit in one batch; an
\* exception of the stream is recorded in stats['errors'] as a message;
\* with the stop flag set no batch is run
Tier2Stream(extracted, partial, raised, exit_ok) ==
    /\ tar_io.pc = "tier2"
    /\ IF tar_io.stop
       THEN extracted = {} /\ partial = {} /\ ~raised
       ELSE StreamOutcome(tar_io.file_list, tar_io.file_list \cap tar_io.present,
                          extracted, partial, raised, exit_ok)
    /\ LET io == stream_and_extract(tar_io, extracted, partial)
       IN  tar_io' = [io EXCEPT
                        !.pc = "returned",
                        !.errors = IF raised THEN @ \cup {BatchStreamError} ELSE @,
                        !.tiers = Append(@, [tier |-> 2, possible |-> TRUE,
                                             raised |-> raised, exit_ok |-> exit_ok,
                                             extracted |-> Cardinality(extracted),
                                             ok |-> ~raised])]
    /\ UNCHANGED << envVars, diskVars, orch, poolVars, hist, diff_io, batch_io, fn_io >>

\* failed_files of backup_optimized: stats['errors'], replaced by the result
\* of verify_extraction when verify_integrity is set and that is not empty
FailedFiles(verify_integrity, lf, expected, errors) ==
    LET verify_failed == IF verify_integrity THEN verify_extraction(lf, expected)
                         ELSE {}
    IN  IF verify_failed # {} THEN verify_failed ELSE errors

\* backup_optimized after download_files: one retry task for each entry of
\* failed_files
TarHandoff ==
    /\ tar_io.pc = "returned"
    /\ tar_io.caller = "orchestrator"
    /\ tar_io' = [tar_io EXCEPT
                    !.pc = "handed",
                    !.retry = FailedFiles(tar_io.verify_integrity, tar_io.local,
                                          TarExpected(tar_io.file_list),
                                          tar_io.errors)]
    /\ UNCHANGED << envVars, diskVars, orch, poolVars, hist, diff_io, batch_io, fn_io >>

NextTar ==
    \/ \E caller \in {"orchestrator", "direct"} :
       \E file_list \in SUBSET TarListPaths : \E present \in SUBSET TarListPaths :
       \E sftp_client \in BOOLEAN : \E verify_integrity \in BOOLEAN :
          TarCall(caller, file_list, present, sftp_client, verify_integrity)
    \/ Tier1NoDir
    \/ \E extracted \in SUBSET TarListPaths : \E partial \in SUBSET TarListPaths :
       \E raised \in BOOLEAN : \E exit_ok \in BOOLEAN :
          \/ Tier1Stream(extracted, partial, raised, exit_ok)
          \/ Tier2Stream(extracted, partial, raised, exit_ok)
    \/ TarHandoff
    \/ TarStop

SpecTar == InitTar /\ [][NextTar]_vars

\* ------------------------------------------------------------------------
\* _verify_download and verify_download_integrity taken alone
\* ------------------------------------------------------------------------

\* expected and actual sizes around the tolerance of 10 bytes and around the
\* tolerance of 0.1 per cent
SizeCases == {0, 5, 10, 11, 989, 990, 1000, 1010, 1011,
              19979, 19980, 20000, 20020, 20021}

InitVerify ==
    /\ Quiescent
    /\ diff_io = NoDiff
    /\ batch_io = NoBatch
    /\ tar_io = NoTar
    /\ \E expected \in SizeCases : \E actual \in SizeCases : \E sftp \in BOOLEAN :
       \E there \in BOOLEAN : \E remote_size \in SizeCases :
          fn_io = [fn |-> "verify", pc |-> "call", expected |-> expected,
                   actual |-> actual, sftp |-> sftp, there |-> there,
                   remote_size |-> remote_size,
                   ok |-> FALSE, new_size |-> 0, integrity_ok |-> FALSE]

\* the two verifiers are applied to a download of FileA: the server has a
\* shell or not, the remote file is there with remote_size bytes or not
ApplyVerify ==
    /\ fn_io.fn = "verify"
    /\ fn_io.pc = "call"
    /\ LET task == [rel_path |-> FileA, size |-> fn_io.expected, prio |-> 0,
                    retry_count |-> 0]
           srv  == [sftp |-> fn_io.sftp, mlsd |-> TRUE, link_type |-> "lnk",
                    unique |-> FALSE]
           tree == [p \in RemotePaths |->
                      IF p = FileA /\ fn_io.there
                      THEN [kind |-> "file", size |-> fn_io.remote_size,
                            modify |-> "t1"]
                      ELSE NoFile]
           v    == verify_download(srv, tree, task, fn_io.actual)
       IN  fn_io' = [fn_io EXCEPT
                       !.pc = "done",
                       !.ok = v.ok,
                       !.new_size = v.new_size,
                       !.integrity_ok = verify_download_integrity(fn_io.expected,
                                                                  fn_io.actual)]
    /\ UNCHANGED << envVars, diskVars, orch, poolVars, hist, diff_io, batch_io,
                    tar_io >>

SpecVerify == InitVerify /\ [][ApplyVerify]_vars

\* ------------------------------------------------------------------------
\* DownloadOrganizer.prioritize_hybrid and ParallelDownloader.add_tasks taken
\* alone
\* ------------------------------------------------------------------------

\* threshold = 1024 * 1024 of prioritize_hybrid
SMALL_FILE_THRESHOLD == 1048576

\* the longest task list of the model
MaxTasks == 3

\* sizes of tasks on both sides of the threshold
TaskSizes == {1000, 1048576, 2000000, 3000000}

\* the characters of the model's paths in the order of their code points
CharOrder == <<".", "/", "a", "d", "g", "l", "o", "x">>

\* s < t for Python strings
RECURSIVE StrLess(_, _)
StrLess(s, t) ==
    IF t = <<>> THEN FALSE
    ELSE IF s = <<>> THEN TRUE
    ELSE IF Head(s) # Head(t)
    THEN LET rank(c) == CHOOSE i \in 1..Len(CharOrder) : CharOrder[i] = c
         IN  rank(Head(s)) < rank(Head(t))
    ELSE StrLess(Tail(s), Tail(t))

\* sorted(seq, key): the stable sort of a sequence; less[i][j] holds when
\* the key of seq[i] is below the key of seq[j]; the position of seq[i] in
\* the result
SortedPos(less, i) ==
    1 + Cardinality({ j \in DOMAIN less : less[j][i] \/ (~less[i][j] /\ j < i) })

StableSort(seq, less) ==
    [k \in 1..Len(seq) |->
        seq[CHOOSE i \in 1..Len(seq) : SortedPos(less, i) = k]]

\* for idx, task in enumerate(...): task.priority = idx, on the tasks in
\* the order of seq
Renumber(seq) == [k \in 1..Len(seq) |-> [seq[k] EXCEPT !.priority = k - 1]]

\* prioritize_by_directory: the tasks by parent directory, the directories
\* in sorted order, the tasks of a directory in list order
prioritize_by_directory(tasks) ==
    LET less == [i \in 1..Len(tasks) |-> [j \in 1..Len(tasks) |->
                   StrLess(Dirname(tasks[i].rel_path), Dirname(tasks[j].rel_path))]]
    IN  Renumber(StableSort(tasks, less))

\* prioritize_by_size: task.priority is set to the rank by size, and the
\* list "tasks" itself is returned, in its own order
prioritize_by_size(tasks, small_first) ==
    LET less == [i \in 1..Len(tasks) |-> [j \in 1..Len(tasks) |->
                   IF small_first THEN tasks[i].size < tasks[j].size
                   ELSE tasks[i].size > tasks[j].size]]
    IN  [i \in 1..Len(tasks) |->
            [tasks[i] EXCEPT !.priority = SortedPos(less, i) - 1]]

\* prioritize_hybrid
prioritize_hybrid(tasks) ==
    LET small_files   == SelectSeq(tasks, LAMBDA t : t.size <= SMALL_FILE_THRESHOLD)
        large_files   == SelectSeq(tasks, LAMBDA t : t.size > SMALL_FILE_THRESHOLD)
        small_by_dir  == prioritize_by_directory(small_files)
        large_by_size == prioritize_by_size(large_files, FALSE)
    IN  Renumber(small_by_dir \o large_by_size)

\* add_tasks: the queue entries (idx, task) of sorted(tasks, key=(priority,
\* size))
add_tasks(tasks) ==
    LET less == [i \in 1..Len(tasks) |-> [j \in 1..Len(tasks) |->
                   \/ tasks[i].priority < tasks[j].priority
                   \/ /\ tasks[i].priority = tasks[j].priority
                      /\ tasks[i].size < tasks[j].size]]
        tasks_sorted == StableSort(tasks, less)
    IN  { [idx |-> k - 1, task |-> tasks_sorted[k]] : k \in 1..Len(tasks_sorted) }

\* the lists of download tasks: distinct paths in any order, any sizes
TaskLists ==
    UNION { { t \in [1..n -> [rel_path : RemotePaths, size : TaskSizes,
                              priority : {0}]] :
                \A i \in 1..n : \A j \in 1..n : i # j => t[i].rel_path # t[j].rel_path }
            : n \in 0..MaxTasks }

InitPriority ==
    /\ Quiescent
    /\ diff_io = NoDiff
    /\ batch_io = NoBatch
    /\ tar_io = NoTar
    /\ \E tasks \in TaskLists :
          fn_io = [fn |-> "prioritize", pc |-> "call", tasks |-> tasks,
                   queue |-> {}, left |-> <<>>]

\* download_tasks = prioritize_hybrid(download_tasks); add_tasks(...)
ApplyPrioritize ==
    /\ fn_io.fn = "prioritize"
    /\ fn_io.pc = "call"
    /\ fn_io' = [fn_io EXCEPT !.pc = "queued",
                              !.queue = add_tasks(prioritize_hybrid(fn_io.tasks))]
    /\ UNCHANGED << envVars, diskVars, orch, poolVars, hist, diff_io, batch_io,
                    tar_io >>

\* task_queue.get(): the entry of least idx leaves the queue
PriorityGet ==
    /\ fn_io.fn = "prioritize"
    /\ fn_io.pc = "queued"
    /\ \E e \in fn_io.queue :
         /\ \A y \in fn_io.queue : e.idx <= y.idx
         /\ fn_io' = [fn_io EXCEPT !.queue = @ \ {e},
                                   !.left = Append(@, e.task)]
    /\ UNCHANGED << envVars, diskVars, orch, poolVars, hist, diff_io, batch_io,
                    tar_io >>

SpecPriority == InitPriority /\ [][ApplyPrioritize \/ PriorityGet]_vars

\* ------------------------------------------------------------------------
\* The pool taken alone: _worker with its periodic health check
\* ------------------------------------------------------------------------

\* health_check_interval of _worker (50 files), scaled to the number of
\* dequeues of the model
health_check_interval == 2

\* a pool that was just started with a task for each path of the file list,
\* whose files may have left the server since the scan; the worker threads
\* are started and have not opened their connection yet; fn_io holds
\* files_since_health_check of each worker and, for each path, the number of
\* task_queue.get that gave its task (dequeued) and of health checks that put
\* it back (put_back), and the number of task_queue.get that gave a task
\* after stop_flag was set (late)
InitPool ==
    /\ remote \in InitialTrees
    /\ server \in Servers
    /\ options \in { o \in Options : o.handle_deletions /\ o.exclude_patterns
                                      /\ o.use_incremental_scan }
    /\ localfs = EmptyIndex
    /\ file_state = EmptyIndex
    /\ checkpoints = <<>>
    /\ sync_errors = <<>>
    /\ cache = NoCache
    /\ orch = OrchIdle
    /\ task_queue = { [rel_path |-> SetToSeq(TarListPaths)[i], size |-> 1000,
                       prio |-> i - 1, retry_count |-> 0]
                      : i \in 1..Cardinality(TarListPaths) }
    /\ result_queue = <<>>
    /\ stats = [StatsZero EXCEPT !.total_files = Cardinality(TarListPaths)]
    /\ stop_flag = FALSE
    /\ workers = [w \in Workers |-> [WorkerIdle EXCEPT !.st = "started"]]
    /\ hist = HistInit
    /\ diff_io = NoDiff
    /\ batch_io = NoBatch
    /\ tar_io = NoTar
    /\ fn_io = [fn |-> "pool",
                files_since_health_check |-> [w \in Workers |-> 0],
                dequeued |-> [p \in TarListPaths |-> 0],
                put_back |-> [p \in TarListPaths |-> 0],
                late |-> 0]

\* the first statement of _worker, ftp = self._create_ftp_connection(),
\* outside the loop and under a try that has a finally and no except: when
\* the three attempts to connect fail the exception leaves _worker and the
\* thread ends with it ("raised"); connected, the worker enters its loop,
\* which it leaves at once when stop_flag is set
PoolConnect(w, connected) ==
    /\ workers[w].st = "started"
    /\ workers' = [workers EXCEPT ![w] =
                     IF ~connected THEN [@ EXCEPT !.st = "raised"]
                     ELSE IF stop_flag THEN WorkerExited ELSE WorkerIdle]
    /\ UNCHANGED << envVars, diskVars, orch, task_queue, result_queue, stats,
                    stop_flag, hist, diff_io, batch_io, tar_io, fn_io >>

\* task_queue.get and the health check of _worker: every
\* health_check_interval files the connection is tested; when it is dead
\* and _reconnect raises (reconnect_failed), the task goes back to the queue
\* as it was and the worker starts its loop again.  The test of stop_flag
\* comes before the get, which waits up to 2 s: a worker that waits when the
\* flag is set still gets a task that is put on the queue within that time
PoolDequeue(w, reconnect_failed) ==
    /\ workers[w].st = "idle"
    /\ \A v \in Workers : v < w => workers[v].st # "idle"
    /\ \E e \in task_queue :
         LET n     == fn_io.files_since_health_check[w] + 1
             check == n >= health_check_interval
         IN  /\ \A y \in task_queue : e.prio <= y.prio
             /\ reconnect_failed => check /\ hist.events < MaxEvents
             /\ fn_io' = [fn_io EXCEPT
                            !.files_since_health_check[w] = IF check THEN 0 ELSE n,
                            !.dequeued[e.rel_path] = @ + 1,
                            !.put_back[e.rel_path] =
                                IF reconnect_failed THEN @ + 1 ELSE @,
                            !.late = IF stop_flag THEN @ + 1 ELSE @]
             /\ IF reconnect_failed
                THEN /\ task_queue' = (task_queue \ {e}) \cup {e}
                     /\ hist' = [hist EXCEPT !.events = @ + 1]
                     /\ workers' = [workers EXCEPT ![w] =
                                      IF stop_flag THEN WorkerExited ELSE WorkerIdle]
                ELSE /\ task_queue' = task_queue \ {e}
                     /\ workers' = [workers EXCEPT ![w] = [st |-> "busy", task |-> e,
                                                           retried |-> FALSE]]
                     /\ UNCHANGED hist
    /\ UNCHANGED << envVars, diskVars, orch, result_queue, stats, stop_flag,
                    diff_io, batch_io, tar_io >>

\* the rest of the loop body: a connection error sets
\* files_since_health_check to 0
PoolDownload(w, outcome, reconnect_ok) ==
    /\ WorkerAttempt(w, outcome, reconnect_ok)
    /\ fn_io' = [fn_io EXCEPT !.files_since_health_check[w] =
                                 IF outcome = "conn" THEN 0 ELSE @]

\* stop(): stop_flag.set()
PoolStop ==
    /\ fn_io.fn = "pool"
    /\ ~stop_flag
    /\ stop_flag' = TRUE
    /\ UNCHANGED << envVars, diskVars, orch, task_queue, result_queue, stats,
                    workers, hist, diff_io, batch_io, tar_io, fn_io >>

\* worker w, between two tasks, finds stop_flag set: it leaves its loop and
\* closes its connection
PoolExit(w) ==
    /\ workers[w].st = "idle"
    /\ stop_flag
    /\ workers' = [workers EXCEPT ![w] = WorkerExited]
    /\ UNCHANGED << envVars, diskVars, orch, task_queue, result_queue, stats,
                    stop_flag, hist, diff_io, batch_io, tar_io, fn_io >>

NextPool ==
    \/ \E w \in Workers, connected \in BOOLEAN : PoolConnect(w, connected)
    \/ \E w \in Workers, reconnect_failed \in BOOLEAN : PoolDequeue(w, reconnect_failed)
    \/ \E w \in Workers, outcome \in Outcomes, reconnect_ok \in BOOLEAN :
         PoolDownload(w, outcome, reconnect_ok)

SpecPool == InitPool /\ [][NextPool]_vars

\* the pool with threads that the system schedules fairly: a worker that can
\* connect, take a task from the queue or go on with its transfer
\* eventually does; the transfer may end in any way every time
SpecPoolFair ==
    /\ SpecPool
    /\ \A w \in Workers :
          /\ WF_vars(PoolConnect(w, TRUE))
          /\ WF_vars(PoolDequeue(w, FALSE))
          /\ WF_vars(\E outcome \in Outcomes, reconnect_ok \in BOOLEAN :
                        PoolDownload(w, outcome, reconnect_ok))

\* the pool and the tar stream, each taken alone, with their stop signals
SpecStop ==
    /\ InitPool \/ InitTar
    /\ [][ \/ NextPool
           \/ PoolStop
           \/ \E w \in Workers : PoolExit(w)
           \/ NextTar ]_vars

\* ------------------------------------------------------------------------
\* IncrementalScanner.scan_full taken alone: the listings, one directory at
\* a time, with the connection that can die
\* ------------------------------------------------------------------------

\* a file two directories deep, d/e/f
FileDeep == <<"d", "/", "e", "/", "f">>

\* scan_full is entered: todo is the stack of the directories to list;
\* listed and reconnected count, for each directory, the calls of
\* _scan_directory and the reconnections made for it; failed holds the
\* directories whose last listing failed; or scan_incremental is called on a
\* tree and a cache that is not empty: each path there or not, in either
\* version on the server, in the older one in the cache
InitScan ==
    /\ Quiescent
    /\ diff_io = NoDiff
    /\ batch_io = NoBatch
    /\ tar_io = NoTar
    /\ fn_io \in { [fn |-> "scan_full", srv |-> s, tree |-> t, todo |-> << <<>> >>,
                    files |-> EmptyIndex, alive |-> TRUE, scan_errors |-> 0,
                    listed |-> [d \in {<<>>, DirD} |-> 0],
                    reconnected |-> [d \in {<<>>, DirD} |-> 0],
                    dead_first |-> {}, failed |-> {}]
                   : s \in Servers, t \in InitialTrees }
         \cup
         { [fn |-> "scan_incremental", pc |-> "call", srv |-> s, tree |-> t,
            cache_files |-> c, last_full_scan |-> d, scan_strategy |-> "full",
            files |-> EmptyIndex]
           : s \in Servers, d \in {"yesterday", "last week"},
             t \in { x \in [RemotePaths \cup {FileDeep} ->
                             UNION {RemoteEntry(p) : p \in RemotePaths} \cup {NoFile}] :
                       \A p \in DOMAIN x :
                          x[p] \in RemoteEntry(IF p = FileDeep THEN FileLog ELSE p)
                                   \cup {NoFile} },
             c \in { [p \in S |-> [size |-> 1000, modify |-> "t1"]]
                     : S \in (SUBSET {FileA, FileLog, FileDeep}) \ {{}} } }

\* one call of _scan_recursive up to its loop: _scan_directory_with_reconnect
\* lists the directory (first); without an item and with a dead connection
\* it calls _reconnect (reconnect_ok) and, reconnected, lists once more
\* (second); then scan_errors is counted when there is no item and the
\* connection is dead. A call of _scan_directory meets a server that
\* answers ("ok"), a dead connection ("dead") or a listing refused on a live
\* connection ("denied"); "none": there is no such call
ScanDirectory(first, reconnect_ok, second) ==
    /\ fn_io.fn = "scan_full"
    /\ fn_io.todo # <<>>
    /\ ~fn_io.alive => first = "dead"
    /\ reconnect_ok => first = "dead"
    /\ (second # "none") <=> reconnect_ok
    /\ LET dir     == Head(fn_io.todo)
           last    == IF reconnect_ok THEN second ELSE first
           items   == IF last = "ok" THEN scan_directory(fn_io.srv, fn_io.tree, dir)
                      ELSE {}
           alive   == last # "dead"
           subdirs == SetToSeq({ JoinPath(dir, it.name)
                                 : it \in {x \in items : x.type = "dir"} })
       IN  fn_io' = [fn_io EXCEPT
                       !.todo = subdirs \o Tail(@),
                       !.files = Update(@, ItemFiles(dir, items)),
                       !.alive = alive,
                       !.scan_errors = IF items = {} /\ ~alive THEN @ + 1 ELSE @,
                       !.listed[dir] = @ + (IF reconnect_ok THEN 2 ELSE 1),
                       !.reconnected[dir] = @ + (IF reconnect_ok THEN 1 ELSE 0),
                       !.dead_first = IF first = "dead" THEN @ \cup {dir} ELSE @,
                       !.failed = IF last # "ok" THEN @ \cup {dir} ELSE @]
    /\ UNCHANGED << envVars, diskVars, orch, poolVars, hist, diff_io, batch_io, tar_io >>

\* scan_incremental is applied to a cache that is not empty: files is what
\* it returns and stores as cache.files, cache_files what the cache held at
\* the call; last_full_scan is not assigned
ApplyIncremental ==
    /\ fn_io.fn = "scan_incremental"
    /\ fn_io.pc = "call"
    /\ fn_io' = [fn_io EXCEPT
                   !.pc = "done",
                   !.scan_strategy = "incremental",
                   !.files = scan_incremental(fn_io.srv, fn_io.tree, fn_io.cache_files)]
    /\ UNCHANGED << envVars, diskVars, orch, poolVars, hist, diff_io, batch_io, tar_io >>

SpecScan ==
    InitScan /\ [][ \/ \E first \in {"ok", "dead", "denied"},
                            reconnect_ok \in BOOLEAN,
                            second \in {"ok", "dead", "denied", "none"} :
                           ScanDirectory(first, reconnect_ok, second)
                    \/ ApplyIncremental ]_vars

\* ------------------------------------------------------------------------
\* TarStreamDownloader._download_via_args and the extraction of one member
\* of the stream, taken alone
\* ------------------------------------------------------------------------

\* ARG_MAX_SAFE of _download_via_args, 100 000 bytes in the source; a path
\* of the model takes 4 to 11 bytes of it, a real one at most some 16 KB
ARG_MAX_SAFE == 12

\* path.replace("'", "'\\''")
RECURSIVE Escaped(_)
Escaped(path) ==
    IF path = <<>> THEN <<>>
    ELSE (IF Head(path) = "'" THEN <<"'", "\\", "'", "'">> ELSE <<Head(path)>>)
         \o Escaped(Tail(path))

RECURSIVE ArgBatches(_, _, _, _)

\* the whole list in one batch, whatever its size
ArgBatches_M(file_list, batches, current_batch, current_size) ==
    IF file_list = <<>> THEN <<>>
    ELSE << [i \in 1..Len(file_list) |-> Escaped(file_list[i])] >>

\* the loop that fills batches: a batch is closed when the next path would
\* take it over ARG_MAX_SAFE; path_size is the UTF-8 length of the escaped
\* path ('u' stands for a character of two bytes) plus 3
ArgBatches(file_list, batches, current_batch, current_size) ==
    IF file_list = <<>>
    THEN IF current_batch # <<>> THEN Append(batches, current_batch) ELSE batches
    ELSE LET escaped   == Escaped(Head(file_list))
             path_size == Len(escaped)
                          + Cardinality({i \in 1..Len(escaped) : escaped[i] = "u"})
                          + 3
         IN  IF current_batch # <<>> /\ current_size + path_size > ARG_MAX_SAFE
             THEN ArgBatches(Tail(file_list), Append(batches, current_batch),
                             <<escaped>>, path_size)
             ELSE ArgBatches(Tail(file_list), batches,
                             Append(current_batch, escaped),
                             current_size + path_size)

\* the realpath of an absolute path: the directory the system reaches from
\* '/' by the components of the path, as a sequence of names
RECURSIVE realpath(_, _)
realpath(at, components) ==
    IF components = <<>> THEN at
    ELSE LET c == Head(components)
         IN  realpath(IF c = <<>> \/ c = <<".">> THEN at
                      ELSE IF c = <<".", ".">>
                           THEN SubSeq(at, 1, Len(at) - 1)
                           ELSE Append(at, c),
                      Tail(components))

\* _normalize_member_name : a leading './' is stripped, once
normalize_member_name(name) ==
    IF StartsWith(name, <<".", "/">>) THEN SubSeq(name, 3, Len(name)) ELSE name

\* _download_via_args is called with a list of distinct paths, or
\* _stream_and_extract meets one member of the stream, a file or a
\* directory or neither, whose name is any string of '.', '/' and 'x';
\* local_root is /b
InitTarFn ==
    /\ Quiescent
    /\ diff_io = NoDiff
    /\ batch_io = NoBatch
    /\ tar_io = NoTar
    /\ fn_io \in
         { [fn |-> "args", pc |-> "call", file_list |-> l, batches |-> <<>>,
            batch_idx |-> 1, invoked |-> <<>>, errors |-> 0, stopped |-> FALSE]
           : l \in { q \in UNION { [1..n -> { <<"a">>, <<"'">>, <<"u">>,
                                               <<"a", "'">>, <<"'", "'">>,
                                               <<"a", "u">> }] : n \in 0..3 } :
                       \A i, j \in 1..Len(q) : i # j => q[i] # q[j] } }
         \cup
         { [fn |-> "extract", pc |-> "member", local_root |-> <<"/", "b">>,
            name |-> m, type |-> k, created |-> {}, files_extracted |-> 0,
            errors |-> 0]
           : m \in UNION { [1..n -> {".", "/", "x"}] : n \in 1..4 },
             k \in {"file", "dir", "other"} }

\* _download_via_args up to its second loop: the batches are built
ArgsSplit ==
    /\ fn_io.fn = "args"
    /\ fn_io.pc = "call"
    /\ fn_io' = [fn_io EXCEPT
                   !.pc = "loop",
                   !.batches = ArgBatches(fn_io.file_list, <<>>, <<>>, 0)]
    /\ UNCHANGED << envVars, diskVars, orch, poolVars, hist, diff_io, batch_io, tar_io >>

\* one turn of the second loop: it ends after the last batch or when _stop
\* is set (stop); else tar is run on the batch, and a stream that raises
\* (raised) is logged
ArgsInvoke(stop, raised) ==
    /\ fn_io.fn = "args"
    /\ fn_io.pc = "loop"
    /\ IF fn_io.batch_idx > Len(fn_io.batches)
       THEN /\ ~stop
            /\ ~raised
            /\ fn_io' = [fn_io EXCEPT !.pc = "done"]
       ELSE IF stop
       THEN /\ ~raised
            /\ fn_io' = [fn_io EXCEPT !.pc = "done", !.stopped = TRUE]
       ELSE fn_io' = [fn_io EXCEPT
                        !.batch_idx = @ + 1,
                        !.invoked = Append(@, fn_io.batches[fn_io.batch_idx]),
                        !.errors = IF raised THEN @ + 1 ELSE @]
    /\ UNCHANGED << envVars, diskVars, orch, poolVars, hist, diff_io, batch_io, tar_io >>

\* one turn of the loop of _stream_and_extract, _stop not set: a directory
\* is created at os.path.join(local_root, member_name); a file is written
\* there after its directory was created, unless open raises (raised);
\* created holds the realpath of what was created, '/' left out as it is
\* there before
ExtractMember(raised) ==
    /\ fn_io.fn = "extract"
    /\ fn_io.pc = "member"
    /\ LET member_name == normalize_member_name(fn_io.name)
           local_path  == IF StartsWith(member_name, <<"/">>) THEN member_name
                          ELSE fn_io.local_root \o <<"/">> \o member_name
       IN  IF fn_io.type # "file"
           THEN /\ ~raised
                /\ fn_io' = [fn_io EXCEPT
                               !.pc = "done",
                               !.created =
                                  IF fn_io.type = "dir" /\ member_name # <<>>
                                  THEN {realpath(<<>>, SplitSlash(local_path))}
                                       \ {<<>>}
                                  ELSE {}]
           ELSE IF member_name = <<>>
           THEN /\ ~raised
                /\ fn_io' = [fn_io EXCEPT !.pc = "done"]
           ELSE fn_io' = [fn_io EXCEPT
                            !.pc = "done",
                            !.created =
                               ({realpath(<<>>, SplitSlash(Dirname(local_path)))}
                                \cup (IF raised THEN {}
                                      ELSE {realpath(<<>>, SplitSlash(local_path))}))
                               \ {<<>>},
                            !.files_extracted = IF raised THEN @ ELSE @ + 1,
                            !.errors = IF raised THEN @ + 1 ELSE @]
    /\ UNCHANGED << envVars, diskVars, orch, poolVars, hist, diff_io, batch_io, tar_io >>

SpecTarFn ==
    InitTarFn /\ [][ \/ ArgsSplit
                     \/ \E stop, raised \in BOOLEAN : ArgsInvoke(stop, raised)
                     \/ \E raised \in BOOLEAN : ExtractMember(raised) ]_vars

\* ------------------------------------------------------------------------
\* Properties
\* ------------------------------------------------------------------------

\* the run wrote its terminal checkpoint
Terminal == orch.pc = "done" /\ orch.outcome \in {"completed", "completed_with_errors"}

\* the positions of a run before PHASE 5
PreCommit == {"scan", "diff", "delete_local", "delete_state", "transfer",
              "tar_stream", "tar_verify", "wait", "join"}

\* the positions of the transfer phase
InTransfer == {"transfer", "tar_stream", "tar_verify", "wait", "join"}

\* the positions from the first upsert on
CommitStarted == {"commit", "checkpoint", "done"}

\* C1 (Completeness), as the specification states it: after a run that
\* reached its commit and wrote a terminal checkpoint, every path of the
\* State Store has a local file, of the size the store records.
C1_Completeness ==
    Terminal =>
        \A p \in DOMAIN file_state :
            p \in DOMAIN localfs /\ localfs[p] = file_state[p].size

\* every path of the store had its local file when the run started
ConsistentStart ==
    \A p \in DOMAIN hist.startup_state : p \in DOMAIN hist.startup_local

\* C2 (No partial writes), as the specification states it: in a run that
\* started with a local file for every path of the State Store, at every
\* position of the deletion phase and of the transfer phase, every path of
\* the State Store has a local file.
C2_NoPartialWrites ==
    ConsistentStart /\ orch.pc \in {"delete_local", "delete_state"} \cup InTransfer =>
        \A p \in DOMAIN file_state : p \in DOMAIN localfs

Crashed == orch.pc = "idle" /\ hist.prev_outcome = "crashed"

\* C3, as the specification states it: a run killed before its commit phase
\* leaves file_state equal to the snapshot of its start.
C3_CrashLeavesStartupSnapshot ==
    Crashed /\ hist.crash_pc \in PreCommit => file_state = hist.startup_state

\* C3, amended: a run killed before its commit phase leaves file_state equal
\* to the snapshot of its start, less the to-delete paths when
\* handle_deletions is set and the deletion phase is over; no entry is added
\* or changed.
C3_CrashKeepsStartupEntries ==
    Crashed /\ hist.crash_pc \in PreCommit =>
        file_state =
            IF options.handle_deletions /\ hist.crash_pc \in InTransfer
            THEN Restrict(hist.startup_state,
                          (DOMAIN hist.startup_state) \ hist.crash_deleted)
            ELSE hist.startup_state

\* a run is killed in its transfer phase after the deletion phase took
\* entries out of the store
C3_Witness ==
    /\ Crashed
    /\ hist.crash_pc \in InTransfer
    /\ hist.crash_deleted # {}
    /\ file_state # hist.startup_state

\* C4 (Commit ordering), as the specification states it: file_state is
\* written by the orchestrator's deletion and commit steps only, the commit
\* starts with every Result collected, and no worker puts a Result once the
\* commit has started.
C4_CommitOrdering ==
    [][ /\ file_state' # file_state => orch.pc \in {"delete_state", "commit"}
        /\ orch'.pc = "commit" /\ orch.pc # "commit" => result_queue' = <<>>
        /\ Len(result_queue') > Len(result_queue) => orch.pc \notin CommitStarted
      ]_vars

\* the rule of the specification: absent from the store, or another size,
\* or another modify string
NeedsByRule(remote_files, store) ==
    { p \in DOMAIN remote_files :
        \/ p \notin DOMAIN store
        \/ store[p].size # remote_files[p].size
        \/ store[p].modify # remote_files[p].modify }

Successful ==
    /\ orch.pc = "done"
    /\ orch.outcome # "no_files"
    /\ \A i \in 1..Len(orch.results) : orch.results[i].success
    /\ orch.transfer = "pool" => Len(orch.results) = Cardinality(DOMAIN orch.to_download)
    /\ orch.tar_errors = {}

\* C6 (Deletion consistency), as the specification states it: with
\* handle_deletions, after a run without a failed transfer that started from
\* equal sets, the local files are the paths of the State Store.
C6_DeletionConsistency ==
    /\ options.handle_deletions
    /\ Successful
    /\ DOMAIN hist.startup_local = DOMAIN hist.startup_state
    => DOMAIN localfs = DOMAIN file_state

SecondOfTwo ==
    /\ orch.sync_id = 2
    /\ hist.prev_outcome \in {"completed", "up_to_date"}
    /\ ~hist.changed
    /\ ~hist.prev_changed

\* C8 (Idempotence), as the specification states it: the second of two runs
\* against an unchanged remote tree has an empty to-download set and an
\* empty to-delete set, transfers no byte and leaves file_state as the first
\* run committed it, whatever strategy each scan selects.
C8_Idempotence ==
    SecondOfTwo /\ orch.pc \notin {"idle", "scan", "diff"} /\ orch.files_found > 0 =>
        /\ DOMAIN orch.to_download = {}
        /\ orch.deleted = {}
        /\ stats.bytes_transferred = 0
        /\ file_state = hist.startup_state

\* C9 (Change-in-flight), as the specification states it: when the pool
\* gave a success Result whose size is the re-stat size and not the
\* scan-time size of its path, the committed Index stores the size of the
\* Result.
C9_ChangeInFlight ==
    orch.pc \in {"checkpoint", "done"} =>
        \A i \in 1..Len(orch.results) :
            LET r == orch.results[i]
            IN  /\ r.success
                /\ r.rel_path \in DOMAIN orch.to_download
                /\ r.size # 0
                /\ r.size # orch.to_download[r.rel_path]
                => file_state[r.rel_path].size = r.size

\* the names under which a symbolic link of the remote tree can be listed
LinkNames ==
    {p \in RemotePaths : remote[p].kind = "lnk"} \cup
    {ArrowName(p) : p \in {q \in RemotePaths : remote[q].kind = "lnk"}}

\* C10 (Link safety), as the specification states it: no symbolic link of
\* the remote tree is a path of the Index that the scan returned, nor of
\* the State Store.
C10_LinkSafety ==
    /\ (DOMAIN orch.remote_files) \cap LinkNames = {}
    /\ (DOMAIN file_state) \cap LinkNames = {}

\* C11 (Checkpoint monotonicity), as the specification states it: the
\* checkpoints of the run's sync_id, in the order they were appended, have
\* nondecreasing files_processed.
C11_CheckpointMonotonicity ==
    \A i \in 1..Len(checkpoints) : \A j \in 1..Len(checkpoints) :
        i < j /\ checkpoints[i].sync_id = checkpoints[j].sync_id
        => checkpoints[i].files_processed <= checkpoints[j].files_processed

\* the store with the first n entries of list(files.items()) upserted
FirstApplied(pre, files, n) ==
    LET file_list == FileList(files)
        m         == IF n < Len(file_list) THEN n ELSE Len(file_list)
        first     == {file_list[i] : i \in 1..m}
    IN  [p \in (DOMAIN pre) \cup first |->
            IF p \in first THEN [size |-> files[p].size, modify |-> files[p].modify]
            ELSE pre[p]]

\* C12 (Batch atomicity): at every point of a call of update_file_batch, a
\* crash included, the committed store is the store of before the call with
\* the first k batches applied in full, k the number of committed
\* transactions, 0 <= k <= total_batches; after the return every batch is
\* applied.
C12_BatchAtomicity ==
    batch_io.pc # "none" =>
        LET total == TotalBatches(batch_io.files, batch_io.batch_size)
            k     == batch_io.batch_num
        IN  /\ k \in 0..total
            /\ batch_io.store =
                   FirstApplied(batch_io.pre, batch_io.files, k * batch_io.batch_size)
            /\ batch_io.pc = "returned" => k = total

\* the process was killed inside the transaction of a batch that is neither
\* the first nor the only one, with rows of the earlier batches committed
C12_Witness ==
    /\ batch_io.pc = "crashed"
    /\ batch_io.pending # {}
    /\ batch_io.batch_num > 0
    /\ batch_io.batch_num < TotalBatches(batch_io.files, batch_io.batch_size)
    /\ batch_io.batch_size > 1
    /\ batch_io.store # batch_io.pre

\* C13 (Upsert frame): the step in which update_file_batch(remote_files)
\* runs leaves in the store the keys of before united with the keys of
\* remote_files, the entries of the other keys unchanged and the entries of
\* the keys of remote_files with the new size and modify; and a step that
\* removes a key from the store is a delete_files of the deletion step.
C13_UpsertFrame ==
    [][ /\ orch.pc = "commit" /\ orch'.pc \in {"checkpoint", "done"} =>
            LET files == orch.remote_files
            IN  /\ DOMAIN file_state' = (DOMAIN file_state) \cup (DOMAIN files)
                /\ \A p \in (DOMAIN file_state) \ (DOMAIN files) :
                       file_state'[p] = file_state[p]
                /\ \A p \in DOMAIN files :
                       file_state'[p] = [size |-> files[p].size,
                                        modify |-> files[p].modify]
        /\ (\E p \in DOMAIN file_state : p \notin DOMAIN file_state') =>
            /\ orch.pc = "delete_state"
            /\ options.handle_deletions
            /\ (DOMAIN file_state) \ (DOMAIN file_state') \subseteq orch.deleted
      ]_vars

\* the commit of a second run has left in the store a key that the run's
\* Index does not hold, and has replaced the entry of another key
C13_Witness ==
    /\ orch.pc \in {"checkpoint", "done"}
    /\ orch.outcome # "no_files"
    /\ \E p \in DOMAIN file_state : p \notin DOMAIN orch.remote_files
    /\ \E p \in (DOMAIN hist.startup_state) \cap (DOMAIN orch.remote_files) :
          hist.startup_state[p] # file_state[p]

\* C14, as the specification states it: with handle_deletions off the
\* deletion phase is never entered, no key of the store of the start of the
\* run is removed, and when the run has ended, with no worker left inside a
\* transfer, every local file of the start of the run is still there.
C14_NoLocalRemoval ==
    ~options.handle_deletions /\ orch.pc # "idle" =>
        /\ orch.pc \notin {"delete_local", "delete_state"}
        /\ DOMAIN hist.startup_state \subseteq DOMAIN file_state
        /\ orch.pc = "done" /\ (\A w \in Workers : workers[w].st # "busy")
           => DOMAIN hist.startup_local \subseteq DOMAIN localfs

\* the transfer of p ended well: the pool gave a success Result for it, or
\* the tar stream left the whole file on the disk
TransferredOK(p) ==
    \/ \E i \in 1..Len(orch.results) :
          orch.results[i].success /\ orch.results[i].rel_path = p
    \/ /\ orch.transfer \in {"tar_full", "tar_selective"}
       /\ p \in DOMAIN localfs
       /\ localfs[p] = orch.to_download[p]

\* C15 (Terminal status), as the specification states it: when the pool
\* did not stall, the terminal checkpoint reads completed exactly when
\* every file of the to-download set ended with a successful transfer, and
\* completed_with_errors otherwise.
C15_TerminalStatus ==
    Terminal /\ ~hist.stalled /\ (\A w \in Workers : workers[w].st # "busy") =>
        (orch.outcome = "completed"
            <=> \A p \in DOMAIN orch.to_download : TransferredOK(p))

\* the Results of a sequence that are failures, in their order
FailedResults(results) == SelectSeq(results, LAMBDA r : ~r.success)

C17_StallNotSuccess ==
    orch.pc = "done" /\ hist.stalled => orch.outcome # "completed"

\* C18. Partial scan: after a full scan that could not list a directory the
\* cache is marked partial and its last_full_scan has not advanced (it is
\* recent only if it was recent when the run began), and the run that
\* follows such a scan does not scan incrementally.
C18_PartialScan ==
    /\ hist.partial => /\ cache.scan_strategy = "partial"
                       /\ cache.fresh => hist.prev_fresh
    /\ hist.prev_partial => orch.strategy # "incremental"

\* the last checkpoint of the store
LastCheckpoint == checkpoints[Len(checkpoints)]

\* C19. Up-to-date run: when a run with an empty to-download set returns,
\* the new Index is committed and the last checkpoint is a checkpoint
\* `completed` of the run's sync_id.
C19_UpToDateCheckpoint ==
    orch.pc = "done" /\ orch.outcome = "up_to_date" =>
        /\ \A p \in DOMAIN orch.remote_files :
             p \in DOMAIN file_state /\ file_state[p] = orch.remote_files[p]
        /\ checkpoints # <<>>
        /\ LastCheckpoint.sync_id = orch.sync_id
        /\ LastCheckpoint.status = "completed"

\* files_processed of the last checkpoint of the run, 0 when it has none
LastProcessed ==
    IF checkpoints = <<>> THEN 0 ELSE LastCheckpoint.files_processed

\* C20. Progress checkpoints: at the step that ends the transfer of a run,
\* on the tar path (the extraction ends) as on the pool path (wait_completion
\* returns), fewer than checkpoint_interval files have been processed since
\* the last checkpoint of the run.
C20_ProgressCheckpoints ==
    [][ /\ orch.pc = "tar_stream" /\ orch'.pc = "tar_verify" =>
             orch'.tar_extracted - LastProcessed' < CheckpointInterval
        /\ orch.pc = "wait" /\ orch'.pc = "join" /\ orch.transfer = "pool" =>
             (stats'.completed + stats'.failed) - LastProcessed'
                 < CheckpointInterval
      ]_vars

\* the paths of the tasks of a queue
QueuedPaths(q) == { t.rel_path : t \in q }

\* C21. Transfer strategy choice: at the step that starts the transfer of a
\* non-empty to-download set, the tar stream is started only on an SFTP
\* server with at least TAR_STREAM_THRESHOLD files to download; without
\* these the per-file pool is started; and whenever the pool is started
\* (also after tar was found unavailable or the tar attempt raised) its
\* queue holds one task for every file of the to-download set, with the
\* file's size.
C21_TransferChoice ==
    [][ orch.pc = "transfer" /\ orch'.pc \in {"tar_stream", "wait"} =>
          LET n == Cardinality(DOMAIN orch.to_download)
          IN  /\ n > 0
              /\ orch'.pc = "tar_stream" =>
                   /\ server.sftp /\ n >= TAR_STREAM_THRESHOLD
                   /\ orch'.transfer \in {"tar_full", "tar_selective"}
              /\ ~(server.sftp /\ n >= TAR_STREAM_THRESHOLD) => orch'.pc = "wait"
              /\ orch'.pc = "wait" =>
                   /\ orch'.transfer = "pool"
                   /\ QueuedPaths(task_queue') = DOMAIN orch.to_download
                   /\ Cardinality(task_queue') = n
                   /\ \A t \in task_queue' :
                        t.size = orch.to_download[t.rel_path] /\ t.retry_count = 0
                   /\ stats'.total_files = n
      ]_vars

\* the pool has been started for a set the tar stream was eligible for
C21_Witness ==
    /\ orch.pc = "wait"
    /\ orch.transfer = "pool"
    /\ server.sftp
    /\ Cardinality(DOMAIN orch.to_download) >= TAR_STREAM_THRESHOLD
    /\ QueuedPaths(task_queue) = DOMAIN orch.to_download

\* the tiers of the call, in the order they were entered
TiersTried == [i \in 1..Len(tar_io.tiers) |-> tar_io.tiers[i].tier]

\* C22. Selective tar tiers: when download_files, called by the
\* orchestrator, has returned, tier 1 was the first tier entered; tier 2 was
\* entered only after a tier 1 that was not possible or failed; and the
\* per-file retry tasks name only paths of the list that are not whole on
\* the local disk.
C22_TierOrder ==
    tar_io.caller = "orchestrator" /\ tar_io.pc \in {"returned", "handed"} =>
        /\ TiersTried # <<>>
        /\ TiersTried[1] = 1
        /\ \A i \in 1..Len(TiersTried) :
             TiersTried[i] = 2 => i = 2 /\ ~tar_io.tiers[1].ok
        /\ tar_io.retry \subseteq
             verify_extraction(tar_io.local, TarExpected(tar_io.file_list))

\* C23. Tar verification hand-off: at the step that follows the tar
\* extraction of a run with verify_integrity, the retry tasks given to the
\* pool are exactly the paths of the to-download set whose local file is
\* missing or has another size than expected.
C23_VerifyHandoff ==
    [][ orch.pc = "tar_verify" /\ orch'.pc \in {"wait", "commit"}
        /\ options.verify_integrity =>
          LET retry == IF orch'.pc = "wait" THEN QueuedPaths(task_queue') ELSE {}
          IN  /\ retry = verify_extraction(localfs, orch.to_download)
              /\ retry \subseteq DOMAIN orch.to_download
      ]_vars

\* |actual - expected| <= max(floor(expected / 1000), 10), on the arguments
\* of the verifiers
WithinTolerance ==
    LET d == IF fn_io.actual >= fn_io.expected THEN fn_io.actual - fn_io.expected
             ELSE fn_io.expected - fn_io.actual
        t == IF fn_io.expected \div 1000 >= 10 THEN fn_io.expected \div 1000 ELSE 10
    IN  d <= t

C25_PriorityOrder ==
    fn_io.fn = "prioritize" /\ fn_io.pc = "queued" /\ fn_io.queue = {} =>
        LET left     == fn_io.left
            Small(i) == left[i].size <= 1048576
            Dir(i)   == Dirname(left[i].rel_path)
        IN  /\ Len(left) = Len(fn_io.tasks)
            /\ \A i \in 1..Len(left) : \A j \in 1..Len(left) :
                 i < j =>
                   /\ Small(j) => Small(i)
                   /\ ~Small(i) /\ ~Small(j) => left[i].size >= left[j].size
                   /\ Small(i) /\ Small(j) /\ Dir(i) = Dir(j) =>
                        \A k \in i..j : Dir(k) = Dir(i)

\* the Results of the result queue for a path
ResultsFor(results, p) == { i \in 1..Len(results) : results[i].rel_path = p }

\* a worker ends its attempt of a task with a Result: the task goes back to
\* the queue, with retry_count + 1 and priority + 100, exactly when the
\* Result is a failure and retry_count < max_retries
RequeueRule ==
    \A w \in Workers :
        workers[w].st = "busy" /\ workers'[w].st # "busy" =>
            LET t == workers[w].task
                r == result_queue'[Len(result_queue')]
                back == [t EXCEPT !.retry_count = @ + 1, !.prio = @ + 100]
            IN  /\ Len(result_queue') = Len(result_queue) + 1
                /\ r.rel_path = t.rel_path
                /\ IF ~r.success /\ t.retry_count < MaxRetries
                   THEN task_queue' = task_queue \cup {back} /\ back \notin task_queue
                   ELSE task_queue' = task_queue

\* no task of the pool has a retry_count above max_retries
RetryCountBounded ==
    /\ \A t \in task_queue : t.retry_count <= MaxRetries
    /\ \A w \in Workers : workers[w].st = "busy" =>
                             workers[w].task.retry_count <= MaxRetries

\* C26 as stated: a task goes back to the queue after a failed attempt if and
\* only if retry_count < max_retries, with retry_count + 1 and priority + 100;
\* retry_count never exceeds max_retries and a task is dequeued at most
\* max_retries + 1 times
C26_BoundedRequeueAll ==
    [][ /\ RequeueRule
        /\ RetryCountBounded'
        /\ \A p \in TarListPaths : fn_io'.dequeued[p] <= MaxRetries + 1 ]_vars

\* C26 amended: the same rule for the requeue after a failed attempt, and
\* retry_count never exceeds max_retries; a dequeue whose health check cannot
\* reconnect puts the task back as it was, without an attempt or a Result;
\* the dequeues of a task that are not such put-backs, and its Results, are
\* at most max_retries + 1
C26_BoundedRequeue ==
    [][ /\ RequeueRule
        /\ RetryCountBounded'
        /\ fn_io'.put_back # fn_io.put_back =>
              /\ task_queue' = task_queue
              /\ result_queue' = result_queue
              /\ workers' = workers
        /\ \A p \in TarListPaths :
              /\ fn_io'.dequeued[p] - fn_io'.put_back[p] <= MaxRetries + 1
              /\ Cardinality(ResultsFor(result_queue', p)) <= MaxRetries + 1 ]_vars

\* a task was put back by a health check and went through all its attempts
C26_Witness ==
    /\ fn_io.fn = "pool"
    /\ \E p \in TarListPaths :
          /\ fn_io.put_back[p] = 1
          /\ fn_io.dequeued[p] = MaxRetries + 2
          /\ Cardinality(ResultsFor(result_queue, p)) = MaxRetries + 1
          /\ \A i \in ResultsFor(result_queue, p) : ~result_queue[i].success

\* the step of worker w is the immediate retry after a connection error
ImmediateRetry(w) ==
    workers[w].st = "busy" /\ ~workers[w].retried /\ workers'[w].retried

\* the immediate retry: the first attempt failed (it is counted in
\* stats['failed']), the worker keeps the task with the retry_count it had,
\* no Result is emitted and nothing is put on the task queue
RetryKeepsTask ==
    \A w \in Workers :
        ImmediateRetry(w) =>
            /\ workers'[w].st = "busy"
            /\ workers'[w].task = workers[w].task
            /\ stats'.failed = stats.failed + 1
            /\ result_queue' = result_queue
            /\ task_queue' = task_queue

\* worker w ends its attempt with the Result of a connection error
EmitsConnFailure(w) ==
    /\ workers[w].st = "busy"
    /\ workers'[w].st # "busy"
    /\ Len(result_queue') = Len(result_queue) + 1
    /\ result_queue'[Len(result_queue')].error = "conn"

\* C27 as stated: after a connection error the worker reconnects and retries
\* the same task once before any Result, without a change of retry_count, and
\* only the outcome of the retry is emitted: no Result of a connection error
\* comes from a first attempt
C27_ConnectionRetryAll ==
    [][ /\ RetryKeepsTask
        /\ \A w \in Workers : EmitsConnFailure(w) => workers[w].retried ]_vars

\* C27 amended: the same for the retry when _reconnect succeeds; a connection
\* failure emitted without a retry (_reconnect raised) is the Result of the
\* first attempt, has the retry_count of the task and is requeued as any
\* failure
C27_ConnectionRetry ==
    [][ /\ RetryKeepsTask
        /\ \A w \in Workers :
              EmitsConnFailure(w) =>
                 LET t == workers[w].task
                     r == result_queue'[Len(result_queue')]
                 IN  /\ r = Failure(t, "conn")
                     /\ task_queue' = Requeue(task_queue, t, r)
                     /\ ~workers[w].retried => stats'.failed = stats.failed + 1 ]_vars

\* a task was retried at once after a connection error and the retry gave
\* the only Result, a success with retry_count 0
C27_Witness ==
    /\ fn_io.fn = "pool"
    /\ stats.failed = 1
    /\ stats.completed = 1
    /\ Len(result_queue) = 1
    /\ result_queue[1].success
    /\ result_queue[1].retry_count = 0
    /\ \A t \in task_queue : t.retry_count = 0

\* worker w ends its attempt with a Result
EmitsResult(w) ==
    /\ workers[w].st = "busy"
    /\ workers'[w].st # "busy"
    /\ Len(result_queue') = Len(result_queue) + 1

\* a re-stat of the remote file of task t succeeds and gives a size other
\* than the expected one
ChangeInFlight(t) ==
    /\ server.sftp
    /\ t.rel_path \in Present(remote)
    /\ remote[t.rel_path].size # t.size

\* C28: with verify_integrity, a download whose size is not within the
\* tolerance of the expected size, and whose remote file was not re-read with
\* another size, ends with the local file deleted and a failure Result; a
\* success Result with an updated size is emitted only after a re-stat that
\* succeeded and gave a size other than the expected one
C28_VerifyFailure ==
    [][ \A w \in Workers :
          EmitsResult(w) /\ options.verify_integrity /\ workers[w].task.size > 0 =>
             LET t   == workers[w].task
                 r   == result_queue'[Len(result_queue')]
                 rel == t.rel_path
             IN  /\ r.rel_path = rel
                 /\ r.success /\ r.error = "size_updated" => ChangeInFlight(t)
                 /\ r.success /\ ~ChangeInFlight(t) =>
                       /\ rel \in DOMAIN localfs'
                       /\ Abs(localfs'[rel] - t.size) <= Max(t.size \div 1000, 10)
                 /\ ~r.success => rel \notin DOMAIN localfs' ]_vars

\* C29: no exception leaves a worker thread; each time a worker ends the
\* attempt of a task it dequeued, exactly one Result for that task is put on
\* the result queue, and the task is finished (a success, or a failure with
\* no retry left) or back on the task queue
C29_ErrorContainment ==
    [][ /\ \A w \in Workers : workers'[w].st # "raised"
        /\ \A w \in Workers :
              workers[w].st = "busy" /\ workers'[w].st # "busy" =>
                 LET t == workers[w].task
                     r == result_queue'[Len(result_queue')]
                 IN  /\ Len(result_queue') = Len(result_queue) + 1
                     /\ r.rel_path = t.rel_path
                     /\ \/ r.success
                        \/ t.retry_count >= MaxRetries
                        \/ \E q \in task_queue' \ task_queue :
                              q.rel_path = t.rel_path ]_vars

\* C30: a tier that ran and ended with a non-zero exit status of the remote
\* tar and no extracted member is not a success, and the next tier is tried:
\* tier 2 after tier 1, and after tier 2 the per-file transfer of the
\* orchestrator, which gets every path of the file list
C30_TierFallThrough ==
    \A i \in 1..Len(tar_io.tiers) :
        LET T == tar_io.tiers[i]
        IN  T.possible /\ ~T.exit_ok /\ T.extracted = 0 =>
               /\ ~T.ok
               /\ T.tier = 1 /\ tar_io.pc \in {"returned", "handed"} =>
                     Len(tar_io.tiers) > i /\ tar_io.tiers[i + 1].tier = 2
               /\ T.tier = 2 /\ tar_io.pc = "handed" =>
                     tar_io.retry = tar_io.file_list

\* C31: in a full scan a directory whose listing fails on a dead connection
\* is listed once more after a reconnection, and only then; no directory is
\* listed more than twice; a directory whose listing still fails gives no
\* file and is counted in scan_errors
C31_ScannerSelfHealing ==
    fn_io.fn = "scan_full" =>
      /\ \A d \in {<<>>, DirD} :
            /\ fn_io.listed[d] <= 2
            /\ fn_io.reconnected[d] <= 1
            /\ fn_io.listed[d] = 2 <=> d \in fn_io.dead_first /\ fn_io.reconnected[d] = 1
            /\ d \in fn_io.dead_first /\ d \in fn_io.failed =>
                  \A p \in DOMAIN fn_io.files : ~Under(d, p)
      /\ fn_io.scan_errors = Cardinality(fn_io.dead_first \cap fn_io.failed)

\* the directory of the root a path lies under; <<>> for a file of the root
TopDir(p) == IF Contains(p, <<"/">>) THEN SplitSlash(p)[1] ELSE <<>>

\* the files and the directories the root listing shows
RootListed == ItemFiles(<<>>, scan_directory(fn_io.srv, fn_io.tree, <<>>))
RootDirs ==
    { it.name : it \in { x \in scan_directory(fn_io.srv, fn_io.tree, <<>>)
                          : x.type = "dir" } }

\* the entries of Index f under directory d are those of Index g
SameUnder(d, f, g) ==
    /\ { p \in DOMAIN f : TopDir(p) = d } = { p \in DOMAIN g : TopDir(p) = d }
    /\ \A p \in DOMAIN f : TopDir(p) = d => f[p] = g[p]

\* the full scan of directory d of the root
Rescan(d) == scan_recursive(fn_io.srv, fn_io.tree, d, {})

\* C32: a directory of the root is rescanned fully if and only if no cached
\* path lies under it; a directory with cached paths keeps its cached
\* entries; the root-level files of the result are exactly the root-level
\* files the remote lists
C32_IncrementalStrategy ==
    fn_io.fn = "scan_incremental" /\ fn_io.pc = "done" =>
      /\ \A d \in RootDirs :
            IF \E p \in DOMAIN fn_io.cache_files : TopDir(p) = d
            THEN SameUnder(d, fn_io.files, fn_io.cache_files)
            ELSE SameUnder(d, fn_io.files, Rescan(d))
      /\ SameUnder(<<>>, fn_io.files, RootListed)

\* a worker that has left its loop stays out of it, and a worker that is
\* processing a task when stop_flag is set leaves its loop after that task
StopEndsWorkers ==
    stop_flag =>
      /\ stop_flag'
      /\ \A w \in Workers :
            /\ workers[w].st = "exited" => workers'[w].st = "exited"
            /\ workers[w].st = "busy" => workers'[w].st \in {"busy", "exited"}
            /\ workers[w].st = "busy" /\ workers'[w].st = "busy" =>
                  workers'[w].task = workers[w].task

\* the tar stream extracts nothing once its stop flag is set
StopEndsExtraction ==
    tar_io.stop =>
      /\ tar_io'.stop
      /\ tar_io'.files_extracted = tar_io.files_extracted
      /\ tar_io'.local = tar_io.local

\* C33 as stated: once the stop signal is set, a worker finishes at most the
\* task it is processing, dequeues no further task and terminates; the tar
\* stream extracts no further member
C33_StopSignalAll ==
    [][ /\ StopEndsWorkers
        /\ StopEndsExtraction
        /\ stop_flag /\ fn_io.fn = "pool" => fn_io'.dequeued = fn_io.dequeued ]_vars

\* C33 amended: once the stop signal is set, a worker finishes the task it
\* is processing and terminates; a worker that was waiting on the queue may
\* still get one task, which it finishes (or puts back) before it terminates,
\* so at most one task per worker is dequeued after the signal;
\* the tar stream extracts no further member
C33_StopSignal ==
    [][ /\ StopEndsWorkers
        /\ StopEndsExtraction
        /\ stop_flag /\ fn_io.fn = "pool" =>
              \A w \in Workers :
                 workers[w].st # workers'[w].st /\ workers'[w].st = "busy" =>
                    workers[w].st = "idle"
        /\ fn_io.fn = "pool" => fn_io'.late <= NumWorkers ]_vars

\* the pool was stopped, a waiting worker got a task after that and every
\* worker has terminated
C33_Witness ==
    /\ fn_io.fn = "pool"
    /\ stop_flag
    /\ fn_io.late = 1
    /\ \A w \in Workers : workers[w].st = "exited"
    /\ Len(result_queue) >= 1

\* the paths of the batches, in order
RECURSIVE Flatten(_)
Flatten(batches) ==
    IF batches = <<>> THEN <<>> ELSE Head(batches) \o Flatten(Tail(batches))

\* the length in bytes of ' '.join(f"'{f}'" for f in batch)
RECURSIVE JoinedLength(_)
JoinedLength(batch) ==
    IF batch = <<>> THEN 0
    ELSE Len(Head(batch))
         + Cardinality({i \in 1..Len(Head(batch)) : Head(batch)[i] = "u"})
         + 2
         + (IF Len(batch) > 1 THEN 1 + JoinedLength(Tail(batch)) ELSE 0)

\* C34: _download_via_args splits the file list into consecutive batches that
\* hold every path once, escaped, in the order of the list; the joined
\* shell-escaped length of each batch is below ARG_MAX_SAFE; tar is run once
\* per batch, in order, as long as the stop flag is not set
C34_ArgumentBatching ==
    fn_io.fn = "args" /\ fn_io.pc # "call" =>
      /\ Flatten(fn_io.batches) =
            [i \in 1..Len(fn_io.file_list) |-> Escaped(fn_io.file_list[i])]
      /\ \A b \in 1..Len(fn_io.batches) :
            /\ fn_io.batches[b] # <<>>
            /\ JoinedLength(fn_io.batches[b]) < ARG_MAX_SAFE
      /\ fn_io.invoked = SubSeq(fn_io.batches, 1, fn_io.batch_idx - 1)
      /\ fn_io.pc = "done" /\ ~fn_io.stopped => fn_io.invoked = fn_io.batches
      /\ fn_io.pc = "loop" => ~fn_io.stopped

\* a list with a quote in a path was split into two batches or more, one of
\* them of two paths or more, and tar was run on each
C34_Witness ==
    /\ fn_io.fn = "args"
    /\ fn_io.pc = "done"
    /\ ~fn_io.stopped
    /\ Len(fn_io.batches) >= 2
    /\ \E b \in 1..Len(fn_io.batches) : Len(fn_io.batches[b]) >= 2
    /\ \E i \in 1..Len(fn_io.file_list) : Contains(fn_io.file_list[i], <<"'">>)
    /\ Len(fn_io.invoked) = Len(fn_io.batches)

\* C39: every file or directory the extraction creates lies under
\* local_root, whatever the name of the member: with a leading './',
\* absolute, or with '..' components
C39_ExtractionConfinement ==
    fn_io.fn = "extract" =>
      LET root == realpath(<<>>, SplitSlash(fn_io.local_root))
      IN  \A p \in fn_io.created :
             Len(p) >= Len(root) /\ SubSeq(p, 1, Len(root)) = root

\* the task of path p has its final outcome: it is not in the queue, no
\* worker holds it and a Result for it is a success, or a failure made with
\* retry_count = max_retries
FinalOutcome(p) ==
    /\ \A e \in task_queue : e.rel_path # p
    /\ \A w \in Workers : workers[w].st = "busy" => workers[w].task.rel_path # p
    /\ \E i \in ResultsFor(result_queue, p) :
          \/ result_queue[i].success
          \/ result_queue[i].retry_count = MaxRetries

\* C35: with stop_flag not set, workers that are scheduled fairly and
\* connections that can be established, every task of add_tasks eventually
\* has its final outcome and is no longer in the queue
C35_PoolLiveness ==
    [](~stop_flag /\ \A w \in Workers : workers[w].st # "raised")
       => <>[](\A p \in TarListPaths : FinalOutcome(p))

\* every task has its final outcome, one of them a failure after
\* max_retries requeues and one a success
C35_Witness ==
    /\ fn_io.fn = "pool"
    /\ ~stop_flag
    /\ \A w \in Workers : workers[w].st = "idle"
    /\ \A p \in TarListPaths : FinalOutcome(p)
    /\ \E i \in 1..Len(result_queue) :
          ~result_queue[i].success /\ result_queue[i].retry_count = MaxRetries
    /\ \E i \in 1..Len(result_queue) : result_queue[i].success

\* C36: once every task of the pool has its final outcome and the queue is
\* empty, the test of the completion branch of wait_completion holds, so
\* that wait_completion returns without the stall timeout, whether the
\* failures came from exceptions or from the verification
C36_WaitCompletionLiveness ==
    /\ orch.pc = "wait"
    /\ orch.transfer = "pool"
    /\ task_queue = {}
    /\ \A p \in DOMAIN orch.to_download : FinalOutcome(p)
    => Finished

\* C37: when wait_completion can return through its completion branch, no
\* worker is processing a task and each task has its final outcome; the
\* counters completed and failed count each task at most once, so their sum
\* never exceeds total_files
C37_WaitCompletionSafety ==
    orch.transfer = "pool" /\ orch.pc \in {"wait", "join"} =>
      /\ stats.completed + stats.failed <= stats.total_files
      /\ orch.pc = "wait" /\ Finished =>
            /\ \A w \in Workers : workers[w].st # "busy"
            /\ \A p \in DOMAIN orch.to_download : FinalOutcome(p)

\* C38: a file whose transfer failed for good in a run is in the to-download
\* set of the next run when the remote tree did not change in between
C38_FailedFilesRetried ==
    /\ hist.run = 2
    /\ orch.pc \in {"delete_local", "delete_state", "transfer"}
    /\ ~hist.prev_changed
    /\ ~hist.changed
    => hist.prev_failed \subseteq DOMAIN orch.to_download

\* C40: scan_incremental called with a cache that is not empty returns an
\* Index that holds every path of the cache, and leaves last_full_scan of
\* the cache as it was
C40_IncrementalScanFrame ==
    [][ fn_io.fn = "scan_incremental" /\ fn_io.pc = "call" /\ fn_io'.pc = "done" =>
          /\ DOMAIN fn_io.cache_files # {}
          /\ DOMAIN fn_io.cache_files \subseteq DOMAIN fn_io'.files
          /\ fn_io'.last_full_scan = fn_io.last_full_scan ]_vars

\* an incremental scan returned while a cached path had left the server and
\* a file of the root had come
C40_Witness ==
    /\ fn_io.fn = "scan_incremental"
    /\ fn_io.pc = "done"
    /\ \E p \in DOMAIN fn_io.cache_files : fn_io.tree[p] = NoFile
    /\ \E p \in DOMAIN fn_io.files : p \notin DOMAIN fn_io.cache_files
    /\ fn_io.last_full_scan = "last week"

====
